---------------------------- MODULE Spec2Model ----------------------------
(***************************************************************************)
(* A model of the degen-terminal prediction-market program: the market     *)
(* lifecycle, the order/escrow ledger, opening and closing trades and the  *)
(* settlement of positions.                                                *)
(*                                                                         *)
(* Token amounts, prices and sizes are the program's u64 values.  TLC's    *)
(* integers are 32 bits wide, so the u64 arithmetic of the program is      *)
(* modelled on numerals of base-10^4 limbs (least significant limb first,  *)
(* no leading zero limb, zero is the empty sequence); the state machine    *)
(* keeps plain integers and converts at the arithmetic.                    *)
(***************************************************************************)
EXTENDS Integers, Sequences, FiniteSets, TLC

(***************************************************************************)
(* u64 numerals                                                            *)
(***************************************************************************)
Base == 10 ^ 4

RECURSIVE ToBig(_)
ToBig(n) == IF n = 0 THEN <<>> ELSE <<n % Base>> \o ToBig(n \div Base)

RECURSIVE FromBig(_)
FromBig(b) == IF b = <<>> THEN 0 ELSE Head(b) + Base * FromBig(Tail(b))

RECURSIVE Norm(_)
Norm(b) ==
    IF b = <<>> THEN <<>>
    ELSE IF b[Len(b)] = 0 THEN Norm(SubSeq(b, 1, Len(b) - 1))
    ELSE b

Limb(b, i) == IF i <= Len(b) THEN b[i] ELSE 0

\* -1, 0, 1 as a < b, a = b, a > b
RECURSIVE CmpFrom(_, _, _)
CmpFrom(a, b, i) ==
    IF i = 0 THEN 0
    ELSE IF a[i] < b[i] THEN -1
    ELSE IF a[i] > b[i] THEN 1
    ELSE CmpFrom(a, b, i - 1)

CmpBig(a, b) ==
    IF Len(a) < Len(b) THEN -1
    ELSE IF Len(a) > Len(b) THEN 1
    ELSE CmpFrom(a, b, Len(a))

LeBig(a, b) == CmpBig(a, b) <= 0
LtBig(a, b) == CmpBig(a, b) < 0

RECURSIVE AddFrom(_, _, _, _)
AddFrom(a, b, i, carry) ==
    IF i > Len(a) /\ i > Len(b)
    THEN IF carry = 0 THEN <<>> ELSE <<carry>>
    ELSE LET s == Limb(a, i) + Limb(b, i) + carry
         IN  <<s % Base>> \o AddFrom(a, b, i + 1, s \div Base)

AddBig(a, b) == AddFrom(a, b, 1, 0)

\* a - b for a >= b
RECURSIVE SubFrom(_, _, _, _)
SubFrom(a, b, i, borrow) ==
    IF i > Len(a) THEN <<>>
    ELSE LET d == Limb(a, i) - Limb(b, i) - borrow
         IN  IF d < 0 THEN <<d + Base>> \o SubFrom(a, b, i + 1, 1)
             ELSE <<d>> \o SubFrom(a, b, i + 1, 0)

SubBig(a, b) == Norm(SubFrom(a, b, 1, 0))

\* a * k for one limb k
RECURSIVE MulLimbFrom(_, _, _, _)
MulLimbFrom(a, k, i, carry) ==
    IF i > Len(a)
    THEN IF carry = 0 THEN <<>> ELSE <<carry>>
    ELSE LET p == a[i] * k + carry
         IN  <<p % Base>> \o MulLimbFrom(a, k, i + 1, p \div Base)

MulLimb(a, k) == IF k = 0 THEN <<>> ELSE MulLimbFrom(a, k, 1, 0)

ShiftBig(a) == IF a = <<>> THEN <<>> ELSE <<0>> \o a

RECURSIVE MulLong(_, _)
MulLong(a, b) ==
    IF b = <<>> \/ a = <<>> THEN <<>>
    ELSE AddBig(MulLimb(a, Head(b)), ShiftBig(MulLong(a, Tail(b))))

\* numerals below 21 * 10^8 fit TLC's integers: their arithmetic is done there
Fits(a) == Len(a) <= 2 \/ (Len(a) = 3 /\ a[3] <= 20)

MulBig(a, b) ==
    IF Len(a) <= 1 /\ Len(b) <= 1 THEN ToBig(FromBig(a) * FromBig(b))
    ELSE MulLong(a, b)

\* the largest limb q in lo..hi with q * b <= r (given lo * b <= r)
RECURSIVE QuoLimb(_, _, _, _)
QuoLimb(r, b, lo, hi) ==
    IF lo = hi THEN lo
    ELSE LET mid == (lo + hi + 1) \div 2
         IN  IF LeBig(MulLimb(b, mid), r)
             THEN QuoLimb(r, b, mid, hi)
             ELSE QuoLimb(r, b, lo, mid - 1)

\* one step of the long division: the quotient limb q of the running
\* remainder r by b, put before the quotient limbs qs found so far
DivPut(r, qs, b, q) == << Norm(<<q>> \o qs), SubBig(r, MulLimb(b, q)) >>

DivLimb(r, qs, b) == DivPut(r, qs, b, QuoLimb(r, b, 0, Base - 1))

DivStep(up, limb, b) == DivLimb(Norm(<<limb>> \o up[2]), up[1], b)

\* long division: <<quotient, remainder>> of the limbs a[i..] by b, b # 0
RECURSIVE DivModFrom(_, _, _)
DivModFrom(a, b, i) ==
    IF i > Len(a) THEN << <<>>, <<>> >>
    ELSE DivStep(DivModFrom(a, b, i + 1), a[i], b)

DivBig(a, b) ==
    IF Fits(a) /\ Fits(b) THEN ToBig(FromBig(a) \div FromBig(b))
    ELSE DivModFrom(a, b, 1)[1]

\* u64::MAX = 18446744073709551615
U64_MAX == <<1615, 955, 737, 6744, 1844>>

\* Option<u64>: None, or the value
None == <<-1>>

checked_mul(a, b) ==
    IF a = None \/ b = None THEN None
    ELSE LET p == MulBig(a, b) IN IF LeBig(p, U64_MAX) THEN p ELSE None

checked_add(a, b) ==
    IF a = None \/ b = None THEN None
    ELSE LET s == AddBig(a, b) IN IF LeBig(s, U64_MAX) THEN s ELSE None

checked_div(a, b) ==
    IF a = None \/ b = None \/ b = <<>> THEN None ELSE DivBig(a, b)

unwrap_or(x, d) == IF x = None THEN d ELSE x

saturating_sub(a, b) == IF LeBig(a, b) THEN <<>> ELSE SubBig(a, b)

(***************************************************************************)
(* Program constants (state.rs)                                            *)
(***************************************************************************)
USDC_MULTIPLIER == 1000000
SHARE_MULTIPLIER == 1000000
MIN_PRICE == 10000
MAX_PRICE == 990000
TICK_SIZE == 10000
MIN_ORDER_SIZE == 1000
\* 100_000_000_000
MAX_ORDER_SIZE == <<0, 0, 1000>>
\* 500_000_000_000
MAX_POSITION_SIZE == <<0, 0, 5000>>
TRADING_CLOSE_BUFFER == 30
MAX_FEE_BPS == 500
BPS_DENOMINATOR == 10000
MIN_EXPIRY_DELAY == 60

(***************************************************************************)
(* Bounds and input sets of the model                                      *)
(***************************************************************************)
\* the trades (execute_match, execute_close) followed on one market
MaxTrades == 2
\* the USDC each user starts with
InitialBalance == 1000

Users == {"alice", "bob"}
Relayer == "relayer"
FeeRecipient == "fee"
Signers == Users \cup {Relayer}
Accounts == Users \cup {Relayer, FeeRecipient}
RentRecipients == {Relayer}

Sides == {"Bid", "Ask"}
Outcomes == {"Yes", "No"}
OrderTypes == {"Limit", "Market"}
ClientIds == {1}
OrderKeys == Users \X ClientIds

MarketExpiry == 100
FarExpiry == 200
TimePoints == {0, MarketExpiry - 30, MarketExpiry}

GoodPrices == {400000, 600000}
BadPrices == {5000, 605000}
GoodSizes == {1000, 1501}
BadSizes == {999}
FeeInputs == {500, 501}
Assets == {"BTC", "DOGE"}
Timeframes == {"1h", "2h"}

Args(side, outcome, type, price, size, expiry) ==
    [side |-> side, outcome |-> outcome, order_type |-> type, price |-> price,
     size |-> size, expiry_ts |-> expiry, client_order_id |-> 1]

\* PlaceOrderArgs offered to place_order: both sides at every valid price and
\* size with a far expiry, and one order each with a price out of range, an
\* off-tick price, a size out of range or a past expiry
RegularArgs ==
    { Args(s, "Yes", "Limit", p, 1501, FarExpiry) : s \in Sides, p \in GoodPrices }
    \cup { Args("Bid", "No", "Limit", 600000, 1501, FarExpiry) }

SpecialArgs ==
    { Args("Bid", "Yes", "Limit", p, 1000, FarExpiry) : p \in BadPrices }
    \cup { Args("Bid", "Yes", "Limit", 600000, z, FarExpiry) : z \in BadSizes }
    \cup { Args("Bid", "Yes", "Limit", 600000, 1000, 0) }

PlaceArgs == RegularArgs \cup SpecialArgs

\* PlaceOrderArgs offered to execute_match as the inline quote of a party
\* without an Order PDA: the handler reads their side, outcome, price, size
\* and expiry
QuoteArgs ==
    { Args(s, o, "Limit", p, 1000, FarExpiry) :
        s \in Sides, o \in Outcomes, p \in GoodPrices }
    \cup { Args("Bid", "Yes", "Limit", 5000, 1000, FarExpiry),
           Args("Bid", "Yes", "Limit", 605000, 1000, FarExpiry),
           Args("Bid", "Yes", "Limit", 600000, 999, FarExpiry),
           Args("Bid", "Yes", "Limit", 600000, 1000, 0) }

\* a crossing pair of quotes at a price near 1: with the fee the Bid pays a
\* whole micro-USDC per share
SteepQuotes ==
    { Args(s, "Yes", "Limit", 953000, 1000, FarExpiry) : s \in Sides }

MatchSizes == GoodSizes \cup BadSizes

(***************************************************************************)
(* Amounts: the program's u64 chains, on numerals                          *)
(***************************************************************************)
\* a cost that is rounded down instead of up
CostAlwaysRoundedUp(a, b) ==
    checked_div(checked_add(checked_mul(a, b), ToBig(SHARE_MULTIPLIER)),
                ToBig(SHARE_MULTIPLIER))

FloorCost(a, b) == checked_div(checked_mul(a, b), ToBig(SHARE_MULTIPLIER))

\* a.checked_mul(b)?.checked_add(SHARE_MULTIPLIER - 1)?.checked_div(SHARE_MULTIPLIER)?
\* None stands for the Err the ? returns
CeilCost(a, b) ==
    checked_div(checked_add(checked_mul(a, b), ToBig(SHARE_MULTIPLIER - 1)),
                ToBig(SHARE_MULTIPLIER))

\* place_order had it rounded the collateral down instead of up
LockAmountRoundedDown(side, price, size) ==
    IF side = "Bid" THEN checked_div(checked_mul(price, size), ToBig(SHARE_MULTIPLIER))
    ELSE checked_div(checked_mul(SubBig(ToBig(USDC_MULTIPLIER), price), size),
                     ToBig(SHARE_MULTIPLIER))

\* place_order: the collateral locked for an order
LockAmount(side, price, size) ==
    IF side = "Bid" THEN CeilCost(price, size)
    ELSE CeilCost(SubBig(ToBig(USDC_MULTIPLIER), price), size)

\* cancel_order, cancel_order_by_relayer: the refund of an order
RefundAmount(filled_size, size, locked_amount) ==
    IF filled_size = <<>> THEN locked_amount
    ELSE IF LeBig(size, filled_size) THEN <<>>
    ELSE LET remaining == saturating_sub(size, filled_size)
         IN  unwrap_or(
                 checked_div(unwrap_or(checked_mul(locked_amount, remaining), <<>>),
                             size),
                 <<>>)

\* a fee that is never charged
FeeWaived(cost, bps) == <<>>

\* cost.checked_mul(taker_fee_bps)?.checked_div(10_000)?
FeeOf(cost, bps) == checked_div(checked_mul(cost, bps), ToBig(BPS_DENOMINATOR))

InPriceRange(price) == price >= MIN_PRICE /\ price <= MAX_PRICE
InSizeRange(size) == size >= MIN_ORDER_SIZE /\ LeBig(ToBig(size), MAX_ORDER_SIZE)

(***************************************************************************)
(* State                                                                   *)
(***************************************************************************)
VARIABLES
    now,        \* Clock::get()?.unix_timestamp
    global,     \* GlobalState, or NoAccount
    market,     \* Market, or NoAccount
    vault,      \* the market vault's token balance
    orders,     \* Order PDAs by (owner, client_order_id), or NoAccount
    positions,  \* UserPosition PDAs by owner, or NoAccount
    bal,        \* USDC token balances of the users, the fee recipient, the relayer
    settled,    \* history: how often each user's position was settled
    order,      \* an Order PDA whose u64 fields are kept at full width, or NoAccount
    refunded,   \* the refund the cancellation of that order paid, or None
    rejected    \* history: some call has returned an error

vars == <<now, global, market, vault, orders, positions, bal, settled, order, refunded, rejected>>

NoAccount == [exists |-> FALSE]

Exists(a) == a.exists

Init ==
    /\ now = 0
    /\ global = NoAccount
    /\ market = NoAccount
    /\ vault = 0
    /\ orders = [k \in OrderKeys |-> NoAccount]
    /\ positions = [u \in Users |-> NoAccount]
    /\ bal = [a \in Accounts |-> IF a \in Users THEN InitialBalance ELSE 0]
    /\ settled = [u \in Users |-> 0]
    /\ order = NoAccount
    /\ refunded = None
    /\ rejected = FALSE

\* The clock moves forward
Tick ==
    /\ \E t \in TimePoints : t > now /\ now' = t
    /\ UNCHANGED <<global, market, vault, orders, positions, bal, settled, order, refunded, rejected>>

(***************************************************************************)
(* initialize_global                                                       *)
(***************************************************************************)
InitializeGlobalResult(maker_fee_bps, taker_fee_bps) ==
    IF Exists(global) THEN "AccountAlreadyInUse"
    ELSE IF ~(maker_fee_bps <= MAX_FEE_BPS) THEN "InvalidFeeConfig"
    ELSE IF ~(taker_fee_bps <= MAX_FEE_BPS) THEN "InvalidFeeConfig"
    ELSE "Ok"

InitializeGlobal ==
    \/ \E admin \in {Relayer}, maker_fee_bps \in {0}, taker_fee_bps \in FeeInputs :
             /\ InitializeGlobalResult(maker_fee_bps, taker_fee_bps) = "Ok"
             /\ global' = [exists |-> TRUE, admin |-> admin,
                           fee_recipient |-> FeeRecipient,
                           maker_fee_bps |-> maker_fee_bps,
                           taker_fee_bps |-> taker_fee_bps,
                           paused |-> FALSE, paused_at |-> 0, total_markets |-> 0]
             /\ UNCHANGED <<now, market, vault, orders, positions, bal, settled, order, refunded, rejected>>
    \/ /\ TRUE = (\E maker_fee_bps \in {0}, taker_fee_bps \in FeeInputs :
             InitializeGlobalResult(maker_fee_bps, taker_fee_bps) # "Ok")
       /\ UNCHANGED vars

(***************************************************************************)
(* pause_protocol                                                          *)
(***************************************************************************)
PauseProtocolResult(signer) ==
    IF ~Exists(global) THEN "AccountNotInitialized"
    ELSE IF global.admin # signer THEN "Unauthorized"
    ELSE "Ok"

PauseProtocol ==
    \/ \E signer \in Signers, paused \in BOOLEAN :
             /\ PauseProtocolResult(signer) = "Ok"
             /\ global' = [global EXCEPT !.paused = paused,
                                         !.paused_at = IF paused THEN now ELSE 0]
             /\ UNCHANGED <<now, market, vault, orders, positions, bal, settled, order, refunded, rejected>>
    \/ /\ TRUE = (\E signer \in Signers : PauseProtocolResult(signer) # "Ok")
       /\ UNCHANGED vars

(***************************************************************************)
(* initialize_market, activate_market                                      *)
(***************************************************************************)
InitializeMarketResult(asset, timeframe, strike_price, expiry_ts) ==
    IF ~Exists(global) THEN "AccountNotInitialized"
    ELSE IF Exists(market) THEN "AccountAlreadyInUse"
    ELSE IF ~(expiry_ts > now + MIN_EXPIRY_DELAY) THEN "InvalidExpiry"
    ELSE IF asset \notin {"BTC", "ETH", "SOL"} THEN "InvalidAsset"
    ELSE IF timeframe \notin {"5m", "15m", "1h", "4h", "24h"} THEN "InvalidTimeframe"
    ELSE "Ok"

InitializeMarket ==
    \/ \E authority \in {Relayer}, asset \in Assets, timeframe \in Timeframes,
       strike_price \in {0, 1}, expiry_ts \in {now + MIN_EXPIRY_DELAY, MarketExpiry} :
             /\ InitializeMarketResult(asset, timeframe, strike_price, expiry_ts) = "Ok"
             /\ global' = [global EXCEPT !.total_markets = @ + 1]
             /\ market' = [exists |-> TRUE,
                           id |-> global.total_markets + 1,
                           authority |-> authority,
                           strike_price |-> strike_price,
                           final_price |-> 0,
                           created_at |-> now,
                           expiry_at |-> expiry_ts,
                           resolved_at |-> 0,
                           settled_at |-> 0,
                           status |-> IF strike_price > 0 THEN "Open" ELSE "Pending",
                           outcome |-> "Pending",
                           total_volume |-> 0,
                           total_trades |-> 0,
                           total_positions |-> 0,
                           settled_positions |-> 0,
                           open_interest |-> 0]
             /\ vault' = 0
             /\ UNCHANGED <<now, orders, positions, bal, settled, order, refunded, rejected>>
    \/ /\ TRUE = (\E asset \in Assets, timeframe \in Timeframes, strike_price \in {0, 1},
             expiry_ts \in {now + MIN_EXPIRY_DELAY, MarketExpiry} :
             InitializeMarketResult(asset, timeframe, strike_price, expiry_ts) # "Ok")
       /\ UNCHANGED vars

\* an activation that does not look at the clock
ActivateMarketAnyTime(signer, strike_price) ==
    IF ~Exists(market) THEN "AccountNotInitialized"
    ELSE IF market.status # "Pending" THEN "MarketNotPending"
    ELSE IF market.authority # signer THEN "Unauthorized"
    ELSE IF ~(strike_price > 0) THEN "InvalidMarketParams"
    ELSE "Ok"

\* an activation that does not look at the market's status
ActivateMarketAnyStatus(signer, strike_price) ==
    IF ~Exists(market) THEN "AccountNotInitialized"
    ELSE IF market.authority # signer THEN "Unauthorized"
    ELSE IF ~(strike_price > 0) THEN "InvalidMarketParams"
    ELSE IF ~(now < market.expiry_at) THEN "MarketExpired"
    ELSE "Ok"

ActivateMarketResult(signer, strike_price) ==
    IF ~Exists(market) THEN "AccountNotInitialized"
    ELSE IF market.status # "Pending" THEN "MarketNotPending"
    ELSE IF market.authority # signer THEN "Unauthorized"
    ELSE IF ~(strike_price > 0) THEN "InvalidMarketParams"
    ELSE IF ~(now < market.expiry_at) THEN "MarketExpired"
    ELSE "Ok"

ActivateMarket ==
    \/ \E signer \in Signers, strike_price \in {0, 1} :
             /\ ActivateMarketResult(signer, strike_price) = "Ok"
             /\ market' = [market EXCEPT !.strike_price = strike_price,
                                         !.status = "Open"]
             /\ UNCHANGED <<now, global, vault, orders, positions, bal, settled, order, refunded, rejected>>
    \/ /\ TRUE = (\E signer \in Signers, strike_price \in {0, 1} :
             ActivateMarketResult(signer, strike_price) # "Ok")
       /\ UNCHANGED vars

\* a pause flag that is never read as set
never_paused(g) == FALSE

\* the protocol's pause flag, as the trading handlers read it
is_paused(g) == g.paused

\* a trading window that never ends
is_trading_open_any_time(m, current_time) == m.status = "Open"

\* a trading window that ends at the expiry, without the close buffer
is_trading_open_until_expiry(m, current_time) ==
    m.status = "Open" /\ current_time < m.expiry_at

\* Market::is_trading_open
is_trading_open(m, current_time) ==
    m.status = "Open" /\ current_time < m.expiry_at - TRADING_CLOSE_BUFFER

\* Order::is_active
is_active(o) == o.status \in {"Open", "PartialFill"}

\* Order::remaining_size
remaining_size(o) == FromBig(saturating_sub(ToBig(o.size), ToBig(o.filled_size)))

\* A token transfer of amount out of a balance succeeds iff the balance covers it
CanPay(balance, amount) == balance >= amount

(***************************************************************************)
(* place_order                                                             *)
(***************************************************************************)
\* The accounts are validated first: the init of the order account runs
\* before the constraint on the market.
PlaceOrderResult(user, args) ==
    IF ~Exists(global) \/ ~Exists(market) THEN "AccountNotInitialized"
    ELSE IF Exists(orders[<<user, args.client_order_id>>]) THEN "AccountAlreadyInUse"
    ELSE IF ~is_trading_open(market, now) THEN "MarketNotOpen"
    ELSE IF is_paused(global) THEN "ProtocolPaused"
    ELSE IF ~InPriceRange(args.price) THEN "InvalidPrice"
    ELSE IF args.price % TICK_SIZE # 0 THEN "InvalidTickSize"
    ELSE IF ~InSizeRange(args.size) THEN "InvalidSize"
    ELSE IF args.order_type = "Limit" /\ ~(args.expiry_ts > now) THEN "OrderExpired"
    ELSE LET lock_amount == LockAmount(args.side, ToBig(args.price), ToBig(args.size))
         IN  IF lock_amount = None THEN "MathOverflow"
             ELSE IF ~(bal[user] >= FromBig(lock_amount)) THEN "InsufficientBalance"
             ELSE "Ok"

PlaceOrderEffect(user, args) ==
    LET lock_amount ==
            FromBig(LockAmount(args.side, ToBig(args.price), ToBig(args.size)))
    IN  /\ bal' = [bal EXCEPT ![user] = @ - lock_amount]
        /\ vault' = vault + lock_amount
        /\ orders' = [orders EXCEPT ![<<user, args.client_order_id>>] =
               [exists |-> TRUE,
                owner |-> user,
                side |-> args.side,
                outcome |-> args.outcome,
                order_type |-> args.order_type,
                price |-> args.price,
                size |-> args.size,
                filled_size |-> 0,
                status |-> "Open",
                client_order_id |-> args.client_order_id,
                expiry_ts |-> args.expiry_ts,
                locked_amount |-> lock_amount]]
        /\ UNCHANGED <<now, global, market, positions, settled, order, refunded, rejected>>

PlaceOrder ==
    \/ \E user \in Users, args \in PlaceArgs :
          /\ PlaceOrderResult(user, args) = "Ok"
          /\ PlaceOrderEffect(user, args)
    \/ /\ TRUE = (\E user \in Users, args \in PlaceArgs : PlaceOrderResult(user, args) # "Ok")
       /\ UNCHANGED vars

(***************************************************************************)
(* cancel_order, cancel_order_by_relayer                                   *)
(***************************************************************************)
refund_amount(o) ==
    FromBig(RefundAmount(ToBig(o.filled_size), ToBig(o.size), ToBig(o.locked_amount)))

CancelOrderResult(signer, key) ==
    IF ~Exists(market) \/ ~Exists(orders[key]) THEN "AccountNotInitialized"
    ELSE IF orders[key].owner # signer THEN "Unauthorized"
    ELSE IF ~is_active(orders[key]) THEN "OrderNotActive"
    ELSE IF refund_amount(orders[key]) > 0 /\ ~CanPay(vault, refund_amount(orders[key]))
         THEN "TokenInsufficientFunds"
    ELSE "Ok"

\* the refund moves from the vault to the owner and the order account is closed
CancelEffect(key) ==
    LET refund == refund_amount(orders[key])
    IN  /\ vault' = vault - refund
        /\ bal' = [bal EXCEPT ![orders[key].owner] = @ + refund]
        /\ orders' = [orders EXCEPT ![key] = NoAccount]
        /\ UNCHANGED <<now, global, market, positions, settled, order, refunded, rejected>>

CancelOrder ==
    \/ \E signer \in Signers, key \in OrderKeys :
          /\ CancelOrderResult(signer, key) = "Ok"
          /\ CancelEffect(key)
    \/ /\ TRUE = (\E signer \in Signers, key \in OrderKeys :
             CancelOrderResult(signer, key) # "Ok")
       /\ UNCHANGED vars

\* a forced cancellation that the authority may make at any time
CancelOrderByRelayerAnyTime(signer, key) ==
    IF ~Exists(market) \/ ~Exists(orders[key]) THEN "AccountNotInitialized"
    ELSE IF ~is_active(orders[key]) THEN "OrderNotActive"
    ELSE IF signer # market.authority THEN "Unauthorized"
    ELSE IF refund_amount(orders[key]) > 0 /\ ~CanPay(vault, refund_amount(orders[key]))
         THEN "TokenInsufficientFunds"
    ELSE "Ok"

CancelOrderByRelayerResult(signer, key) ==
    IF ~Exists(market) \/ ~Exists(orders[key]) THEN "AccountNotInitialized"
    ELSE IF ~is_active(orders[key]) THEN "OrderNotActive"
    ELSE IF signer # market.authority THEN "Unauthorized"
    ELSE IF ~(now >= market.expiry_at - TRADING_CLOSE_BUFFER) THEN "MarketNotOpen"
    ELSE IF refund_amount(orders[key]) > 0 /\ ~CanPay(vault, refund_amount(orders[key]))
         THEN "TokenInsufficientFunds"
    ELSE "Ok"

CancelOrderByRelayer ==
    \/ \E signer \in Signers, key \in OrderKeys :
          /\ CancelOrderByRelayerResult(signer, key) = "Ok"
          /\ CancelEffect(key)
    \/ /\ TRUE = (\E signer \in Signers, key \in OrderKeys :
             CancelOrderByRelayerResult(signer, key) # "Ok")
       /\ UNCHANGED vars

(***************************************************************************)
(* execute_match                                                           *)
(***************************************************************************)
NoKey == <<"none", 0>>

\* the order data of a counterparty: the Order PDA if one is passed, else the args
OrderData(key, args) ==
    IF key # NoKey
    THEN [side |-> orders[key].side, outcome |-> orders[key].outcome,
          price |-> orders[key].price, size |-> orders[key].size,
          expiry_ts |-> orders[key].expiry_ts]
    ELSE [side |-> args.side, outcome |-> args.outcome, price |-> args.price,
          size |-> args.size, expiry_ts |-> args.expiry_ts]

\* the checks on a passed Order PDA
OrderCheck(key, party) ==
    IF key = NoKey THEN "Ok"
    ELSE IF ~Exists(orders[key]) THEN "AccountNotInitialized"
    ELSE IF orders[key].owner # party THEN "Unauthorized"
    ELSE IF ~is_active(orders[key]) THEN "OrderNotActive"
    ELSE "Ok"

\* The prices, costs and fee of a match of match_size at the maker's price.
\* The costs and the fee are Option<u64> numerals.
MatchCalc(md, match_size) ==
    LET execution_price == md.price
        yes_price == IF md.outcome = "Yes" THEN execution_price
                     ELSE USDC_MULTIPLIER - execution_price
        no_price == USDC_MULTIPLIER - yes_price
        yes_cost == CeilCost(ToBig(yes_price), ToBig(match_size))
        no_cost == CeilCost(ToBig(no_price), ToBig(match_size))
        is_maker_yes_buyer == \/ (md.side = "Bid" /\ md.outcome = "Yes")
                              \/ (md.side = "Ask" /\ md.outcome = "No")
        taker_fee == IF is_maker_yes_buyer
                     THEN FeeOf(no_cost, ToBig(global.taker_fee_bps))
                     ELSE FeeOf(yes_cost, ToBig(global.taker_fee_bps))
    IN  [execution_price |-> execution_price,
         yes_price |-> yes_price,
         no_price |-> no_price,
         yes_cost |-> yes_cost,
         no_cost |-> no_cost,
         is_maker_yes_buyer |-> is_maker_yes_buyer,
         taker_fee |-> taker_fee,
         maker_cost |-> IF is_maker_yes_buyer THEN yes_cost ELSE no_cost,
         taker_cost |-> IF is_maker_yes_buyer THEN checked_add(no_cost, taker_fee)
                        ELSE checked_add(yes_cost, taker_fee)]

\* the shares of a position account that init_if_needed may just have created
SharesOf(user, outcome) ==
    IF ~Exists(positions[user]) THEN 0
    ELSE IF outcome = "Yes" THEN positions[user].yes_shares
    ELSE positions[user].no_shares

WithinPositionLimit(shares, size) ==
    LeBig(AddBig(ToBig(shares), ToBig(size)), MAX_POSITION_SIZE)

\* the vault after the deposits of the inline counterparties
VaultAfterDeposits(mk, tk, c) ==
    vault + (IF mk = NoKey THEN FromBig(c.maker_cost) ELSE 0)
          + (IF tk = NoKey THEN FromBig(c.taker_cost) ELSE 0)

\* a price validation that lets every pair of prices through
OrdersAlwaysCross(md, td) == TRUE

\* the price validation: the orders must cross
OrdersCross(md, td) ==
    IF md.side = "Bid" THEN td.price <= md.price ELSE td.price >= md.price

MatchChecks(maker, taker, mk, tk, md, td, c, match_size) ==
    IF is_paused(global) THEN "ProtocolPaused"
    ELSE IF market.status # "Open" THEN "MarketNotOpen"
    ELSE IF ~is_trading_open(market, now) THEN "MarketClosing"
    ELSE IF maker = taker THEN "SelfTrade"
    ELSE IF md.side = td.side THEN "SameSide"
    ELSE IF md.outcome # td.outcome THEN "OutcomeMismatch"
    ELSE IF ~(md.expiry_ts > now) THEN "OrderExpired"
    ELSE IF ~(td.expiry_ts > now) THEN "OrderExpired"
    ELSE IF ~InPriceRange(md.price) THEN "InvalidPrice"
    ELSE IF ~InPriceRange(td.price) THEN "InvalidPrice"
    ELSE IF ~InSizeRange(md.size) THEN "InvalidSize"
    ELSE IF ~InSizeRange(td.size) THEN "InvalidSize"
    ELSE IF ~InSizeRange(match_size) THEN "InvalidSize"
    ELSE IF ~OrdersCross(md, td) THEN "PriceMismatch"
    ELSE IF c.yes_cost = None \/ c.no_cost = None THEN "MathOverflow"
    ELSE IF ~WithinPositionLimit(
                SharesOf(IF c.is_maker_yes_buyer THEN maker ELSE taker, "Yes"),
                match_size)
         THEN "PositionLimitExceeded"
    ELSE IF ~WithinPositionLimit(
                SharesOf(IF c.is_maker_yes_buyer THEN taker ELSE maker, "No"),
                match_size)
         THEN "PositionLimitExceeded"
    ELSE IF c.taker_fee = None \/ c.taker_cost = None THEN "MathOverflow"
    ELSE IF mk = NoKey /\ ~CanPay(bal[maker], FromBig(c.maker_cost))
         THEN "TokenInsufficientFunds"
    ELSE IF tk = NoKey /\ ~CanPay(bal[taker], FromBig(c.taker_cost))
         THEN "TokenInsufficientFunds"
    ELSE IF FromBig(c.taker_fee) > 0
            /\ ~CanPay(VaultAfterDeposits(mk, tk, c), FromBig(c.taker_fee))
         THEN "TokenInsufficientFunds"
    ELSE "Ok"

ExecuteMatchResult(maker, taker, mk, tk, margs, targs, match_size) ==
    IF ~Exists(global) \/ ~Exists(market) THEN "AccountNotInitialized"
    ELSE IF OrderCheck(mk, maker) # "Ok" THEN OrderCheck(mk, maker)
    ELSE IF OrderCheck(tk, taker) # "Ok" THEN OrderCheck(tk, taker)
    ELSE MatchChecks(maker, taker, mk, tk, OrderData(mk, margs), OrderData(tk, targs),
                     MatchCalc(OrderData(mk, margs), match_size), match_size)

\* an Order PDA after a fill of match_size
FillOrder(o, match_size) ==
    LET filled == o.filled_size + match_size
    IN  [o EXCEPT !.filled_size = filled,
                  !.status = IF filled >= o.size THEN "Filled" ELSE "PartialFill"]

\* a position account as init_if_needed leaves it, with its owner set
OpenPosition(user) ==
    IF Exists(positions[user]) THEN positions[user]
    ELSE [exists |-> TRUE, owner |-> user, yes_shares |-> 0, no_shares |-> 0,
          yes_cost_basis |-> 0, no_cost_basis |-> 0, realized_pnl |-> 0,
          settled |-> FALSE, payout |-> 0]

\* a count that takes every position account for an old one
NoNewPositions(maker, taker) == 0

NewPositions(maker, taker) ==
    (IF Exists(positions[maker]) THEN 0 ELSE 1)
    + (IF Exists(positions[taker]) THEN 0 ELSE 1)

OpenInterestUncounted(open_interest, match_size) == open_interest

\* the open interest after an opening trade: one contract per share pair
OpenInterestAfterMatch(open_interest, match_size) == open_interest + match_size

MatchEffect(maker, taker, mk, tk, c, match_size) ==
    LET yes_cost == FromBig(c.yes_cost)
        no_cost == FromBig(c.no_cost)
        taker_fee == FromBig(c.taker_fee)
        maker_paid == IF mk = NoKey THEN FromBig(c.maker_cost) ELSE 0
        taker_paid == IF tk = NoKey THEN FromBig(c.taker_cost) ELSE 0
        mp == OpenPosition(maker)
        tp == OpenPosition(taker)
    IN  /\ bal' = [bal EXCEPT ![maker] = @ - maker_paid,
                              ![taker] = @ - taker_paid,
                              ![FeeRecipient] = @ + taker_fee]
        /\ vault' = vault + maker_paid + taker_paid - taker_fee
        /\ orders' = [k \in OrderKeys |->
                        IF k = mk \/ k = tk THEN FillOrder(orders[k], match_size)
                        ELSE orders[k]]
        /\ positions' =
             IF c.is_maker_yes_buyer
             THEN [positions EXCEPT
                     ![maker] = [mp EXCEPT !.yes_shares = @ + match_size,
                                           !.yes_cost_basis = @ + yes_cost],
                     ![taker] = [tp EXCEPT !.no_shares = @ + match_size,
                                           !.no_cost_basis = @ + no_cost + taker_fee]]
             ELSE [positions EXCEPT
                     ![taker] = [tp EXCEPT !.yes_shares = @ + match_size,
                                           !.yes_cost_basis = @ + yes_cost + taker_fee],
                     ![maker] = [mp EXCEPT !.no_shares = @ + match_size,
                                           !.no_cost_basis = @ + no_cost]]
        /\ market' = [market EXCEPT
                        !.total_positions = @ + NewPositions(maker, taker),
                        !.open_interest = OpenInterestAfterMatch(@, match_size),
                        !.total_volume = @ + yes_cost + no_cost,
                        !.total_trades = @ + 1]
        /\ UNCHANGED <<now, global, settled, order, refunded, rejected>>

ExecuteMatchEffect(maker, taker, mk, tk, margs, targs, match_size) ==
    MatchEffect(maker, taker, mk, tk, MatchCalc(OrderData(mk, margs), match_size),
                match_size)

\* the Order PDA a party may pass: none, or its own order
OwnKeys(party) == {NoKey} \cup {k \in OrderKeys : k[1] = party /\ Exists(orders[k])}

NoArgs == Args("Bid", "Yes", "Limit", 0, 0, 0)

\* the args that go with a key: ignored by the handler when an Order PDA is passed
ArgsFor(key) == IF key = NoKey THEN QuoteArgs ELSE {NoArgs}

\* the args of the calls that are followed to their effect
MatchArgsFor(key) == IF key = NoKey THEN QuoteArgs \cup SteepQuotes ELSE {NoArgs}

\* The successful calls, at most MaxTrades trades per market, and the calls
\* that return an error: the transaction is rolled back and nothing changes.
ExecuteMatch ==
    \/ /\ Exists(global) /\ Exists(market)
       /\ is_trading_open(market, now)
       /\ market.total_trades < MaxTrades
       /\ \E maker \in Users, taker \in Users :
          \E mk \in OwnKeys(maker), tk \in OwnKeys(taker) :
          \E margs \in MatchArgsFor(mk) :
          \E targs \in {t \in MatchArgsFor(tk) :
                          OrderData(tk, t).side # OrderData(mk, margs).side} :
          \E match_size \in MatchSizes :
            /\ ExecuteMatchResult(maker, taker, mk, tk, margs, targs, match_size) = "Ok"
            /\ ExecuteMatchEffect(maker, taker, mk, tk, margs, targs, match_size)
    \/ /\ TRUE = (\E maker \in Users, taker \in Users :
          \E mk \in OwnKeys(maker), tk \in OwnKeys(taker) :
          \E margs \in ArgsFor(mk), targs \in ArgsFor(tk), match_size \in MatchSizes :
            ExecuteMatchResult(maker, taker, mk, tk, margs, targs, match_size) # "Ok")
       /\ UNCHANGED vars

(***************************************************************************)
(* execute_close                                                           *)
(***************************************************************************)
CloseArgs(outcome, price, size) == [outcome |-> outcome, price |-> price, size |-> size]

CloseTradeArgs ==
    { CloseArgs(o, 400000, 1000) : o \in Outcomes }
    \cup { CloseArgs("Yes", 5000, 1000), CloseArgs("Yes", 405000, 1000),
           CloseArgs("Yes", 400000, 999), CloseArgs("Yes", 400000, 1501) }

\* transfer_amount, fee and the seller's accounting of a closing trade
CloseCalc(seller_shares, seller_cost_basis, args) ==
    LET transfer_amount == CeilCost(ToBig(args.price), ToBig(args.size))
        fee == FeeOf(transfer_amount, ToBig(global.taker_fee_bps))
        cost_per_share ==
            IF seller_shares > 0
            THEN unwrap_or(checked_div(ToBig(seller_cost_basis), ToBig(seller_shares)), <<>>)
            ELSE <<>>
        cost_basis_sold ==
            checked_div(checked_mul(cost_per_share, ToBig(args.size)),
                        ToBig(SHARE_MULTIPLIER))
        cost_reduction ==
            checked_div(checked_mul(ToBig(seller_cost_basis), ToBig(args.size)),
                        ToBig(seller_shares))
    IN  [transfer_amount |-> transfer_amount,
         fee |-> fee,
         seller_receives |-> IF transfer_amount = None \/ fee = None THEN None
                             ELSE saturating_sub(transfer_amount, fee),
         cost_basis_sold |-> cost_basis_sold,
         cost_reduction |-> cost_reduction,
         buyer_total_cost |-> checked_add(transfer_amount, fee)]

\* a share check that takes any holding for enough
SellerHoldsAnything(seller_shares, size) == TRUE

\* the seller has enough shares of the outcome being sold
SellerHolds(seller_shares, size) == seller_shares >= size

CloseChecks(buyer, seller, args, seller_shares, c) ==
    IF is_paused(global) THEN "ProtocolPaused"
    ELSE IF market.status # "Open" THEN "MarketNotOpen"
    ELSE IF ~is_trading_open(market, now) THEN "MarketClosing"
    ELSE IF buyer = seller THEN "SelfTrade"
    ELSE IF ~InPriceRange(args.price) THEN "InvalidPrice"
    ELSE IF ~InSizeRange(args.size) THEN "InvalidSize"
    ELSE IF ~SellerHolds(seller_shares, args.size) THEN "InsufficientShares"
    ELSE IF ~WithinPositionLimit(SharesOf(buyer, args.outcome), args.size)
         THEN "PositionLimitExceeded"
    ELSE IF c.transfer_amount = None \/ c.fee = None THEN "MathOverflow"
    ELSE IF ~CanPay(bal[buyer], FromBig(c.seller_receives) + FromBig(c.fee))
         THEN "TokenInsufficientFunds"
    ELSE IF c.cost_basis_sold = None \/ c.cost_reduction = None
            \/ c.buyer_total_cost = None
         THEN "MathOverflow"
    ELSE "Ok"

ExecuteCloseResult(buyer, seller, args) ==
    IF ~Exists(global) \/ ~Exists(market) THEN "AccountNotInitialized"
    ELSE IF ~Exists(positions[buyer]) \/ ~Exists(positions[seller])
         THEN "AccountNotInitialized"
    ELSE CloseChecks(buyer, seller, args, SharesOf(seller, args.outcome),
                     CloseCalc(SharesOf(seller, args.outcome),
                               IF args.outcome = "Yes"
                               THEN positions[seller].yes_cost_basis
                               ELSE positions[seller].no_cost_basis,
                               args))

CloseEffect(buyer, seller, args, c) ==
    LET transfer_amount == FromBig(c.transfer_amount)
        fee == FromBig(c.fee)
        seller_receives == FromBig(c.seller_receives)
        realized_pnl == transfer_amount - FromBig(c.cost_basis_sold)
        cost_reduction == c.cost_reduction
        buyer_total_cost == FromBig(c.buyer_total_cost)
        sp == positions[seller]
        bp == positions[buyer]
    IN  /\ bal' = [bal EXCEPT ![buyer] = @ - seller_receives - fee,
                              ![seller] = @ + seller_receives,
                              ![FeeRecipient] = @ + fee]
        /\ positions' =
             IF args.outcome = "Yes"
             THEN [positions EXCEPT
                     ![seller] = [sp EXCEPT
                        !.yes_shares = @ - args.size,
                        !.yes_cost_basis =
                            FromBig(saturating_sub(ToBig(@), cost_reduction)),
                        !.realized_pnl = @ + realized_pnl],
                     ![buyer] = [bp EXCEPT
                        !.yes_shares = @ + args.size,
                        !.yes_cost_basis = @ + buyer_total_cost]]
             ELSE [positions EXCEPT
                     ![seller] = [sp EXCEPT
                        !.no_shares = @ - args.size,
                        !.no_cost_basis =
                            FromBig(saturating_sub(ToBig(@), cost_reduction)),
                        !.realized_pnl = @ + realized_pnl],
                     ![buyer] = [bp EXCEPT
                        !.no_shares = @ + args.size,
                        !.no_cost_basis = @ + buyer_total_cost]]
        /\ market' = [market EXCEPT !.total_volume = @ + transfer_amount,
                                    !.total_trades = @ + 1]
        /\ UNCHANGED <<now, global, vault, orders, settled, order, refunded, rejected>>

ExecuteCloseEffect(buyer, seller, args) ==
    CloseEffect(buyer, seller, args,
                CloseCalc(SharesOf(seller, args.outcome),
                          IF args.outcome = "Yes"
                          THEN positions[seller].yes_cost_basis
                          ELSE positions[seller].no_cost_basis,
                          args))

ExecuteClose ==
    \/ \E buyer \in Users, seller \in Users, args \in CloseTradeArgs :
          /\ Exists(market) /\ market.total_trades < MaxTrades
          /\ ExecuteCloseResult(buyer, seller, args) = "Ok"
          /\ ExecuteCloseEffect(buyer, seller, args)
    \/ /\ TRUE = (\E buyer \in Users, seller \in Users, args \in CloseTradeArgs :
             ExecuteCloseResult(buyer, seller, args) # "Ok")
       /\ UNCHANGED vars

(***************************************************************************)
(* resolve_market                                                          *)
(***************************************************************************)
ResolveOutcomes == {0, 1, 2}
FinalPrices == {0, 1}

\* a resolution that does not look at the market's status
ResolveMarketResultAnyStatus(outcome, final_price) ==
    IF ~Exists(market) THEN "AccountNotInitialized"
    ELSE IF ~(now >= market.expiry_at) THEN "MarketNotExpired"
    ELSE IF ~(outcome <= 1) THEN "InvalidMarketParams"
    ELSE IF ~(final_price > 0) THEN "InvalidOraclePrice"
    ELSE "Ok"

ResolveMarketResult(outcome, final_price) ==
    IF ~Exists(market) THEN "AccountNotInitialized"
    ELSE IF ~(now >= market.expiry_at) THEN "MarketNotExpired"
    ELSE IF ~(market.status = "Open" \/ market.status = "Closed")
         THEN "MarketAlreadyResolved"
    ELSE IF ~(outcome <= 1) THEN "InvalidMarketParams"
    ELSE IF ~(final_price > 0) THEN "InvalidOraclePrice"
    ELSE "Ok"

\* a resolution that leaves the outcome as it was
ResolveKeepsOutcome(outcome, final_price) ==
    /\ market' = [market EXCEPT !.final_price = final_price,
                                !.resolved_at = now,
                                !.status = "Resolved"]
    /\ UNCHANGED <<now, global, vault, orders, positions, bal, settled, order, refunded, rejected>>

\* a resolution that reads outcome 0 as No and 1 as Yes
ResolveSwapsOutcome(outcome, final_price) ==
    /\ market' = [market EXCEPT !.final_price = final_price,
                                !.resolved_at = now,
                                !.status = "Resolved",
                                !.outcome = IF outcome = 0 THEN "No" ELSE "Yes"]
    /\ UNCHANGED <<now, global, vault, orders, positions, bal, settled, order, refunded, rejected>>

ResolveMarketEffect(outcome, final_price) ==
    /\ market' = [market EXCEPT !.final_price = final_price,
                                !.resolved_at = now,
                                !.status = "Resolved",
                                !.outcome = IF outcome = 0 THEN "Yes" ELSE "No"]
    /\ UNCHANGED <<now, global, vault, orders, positions, bal, settled, order, refunded, rejected>>

\* the accounts of resolve_market are the market and a signer named
\* authority; no constraint and no check of the handler compares that
\* signer with market.authority
ResolveMarketBy(authority, outcome, final_price) ==
    ResolveMarketResult(outcome, final_price)

ResolveMarket ==
    \/ \E authority \in Signers, outcome \in ResolveOutcomes, final_price \in FinalPrices :
          /\ ResolveMarketBy(authority, outcome, final_price) = "Ok"
          /\ ResolveMarketEffect(outcome, final_price)
    \/ /\ TRUE = (\E outcome \in ResolveOutcomes, final_price \in FinalPrices :
             ResolveMarketResult(outcome, final_price) # "Ok")
       /\ UNCHANGED vars

(***************************************************************************)
(* settle_positions                                                        *)
(***************************************************************************)
\* a payout that scales the share count down to whole contracts
PayoutPerContract(p) ==
    (IF market.outcome = "Yes" THEN p.yes_shares ELSE p.no_shares) \div SHARE_MULTIPLIER

\* the payout of a position: the share count of the winning outcome
Payout(p) ==
    IF market.outcome = "Yes" THEN p.yes_shares ELSE p.no_shares

SettlePositionsResult(user) ==
    IF ~Exists(market) \/ ~Exists(positions[user]) THEN "AccountNotInitialized"
    ELSE IF market.status # "Resolved" THEN "MarketNotResolved"
    ELSE IF ~(market.outcome # "Pending") THEN "MarketNotResolved"
    ELSE IF positions[user].settled THEN "PositionAlreadySettled"
    ELSE IF Payout(positions[user]) > 0 /\ ~(vault >= Payout(positions[user]))
         THEN "InsufficientVaultBalance"
    ELSE "Ok"

\* a settlement that leaves the position account open
SettleLeavingAccountOpen(user) ==
    LET payout == Payout(positions[user])
        settled_positions == market.settled_positions + 1
    IN  /\ vault' = vault - payout
        /\ bal' = [bal EXCEPT ![user] = @ + payout]
        /\ market' =
             IF settled_positions >= market.total_positions
             THEN [market EXCEPT !.settled_positions = settled_positions,
                                 !.status = "Settled",
                                 !.settled_at = now]
             ELSE [market EXCEPT !.settled_positions = settled_positions]
        /\ settled' = [settled EXCEPT ![user] = @ + 1]
        /\ UNCHANGED <<now, global, orders, positions, order, refunded, rejected>>

\* a settlement that marks the market Settled whatever the count
SettleMarksMarketSettled(user) ==
    LET payout == Payout(positions[user])
        settled_positions == market.settled_positions + 1
    IN  /\ vault' = vault - payout
        /\ bal' = [bal EXCEPT ![user] = @ + payout]
        /\ market' = [market EXCEPT !.settled_positions = settled_positions,
                                    !.status = "Settled",
                                    !.settled_at = now]
        /\ positions' = [positions EXCEPT ![user] = NoAccount]
        /\ settled' = [settled EXCEPT ![user] = @ + 1]
        /\ UNCHANGED <<now, global, orders, order, refunded, rejected>>

\* the payout moves to the owner, the market counts the position and the
\* position account is closed (close = authority)
SettlePositionsEffect(user) ==
    LET payout == Payout(positions[user])
        settled_positions == market.settled_positions + 1
    IN  /\ vault' = vault - payout
        /\ bal' = [bal EXCEPT ![user] = @ + payout]
        /\ market' =
             IF settled_positions >= market.total_positions
             THEN [market EXCEPT !.settled_positions = settled_positions,
                                 !.status = "Settled",
                                 !.settled_at = now]
             ELSE [market EXCEPT !.settled_positions = settled_positions]
        /\ positions' = [positions EXCEPT ![user] = NoAccount]
        /\ settled' = [settled EXCEPT ![user] = @ + 1]
        /\ UNCHANGED <<now, global, orders, order, refunded, rejected>>

SettlePositions ==
    \/ \E authority \in Signers, user \in Users :
          /\ SettlePositionsResult(user) = "Ok"
          /\ SettlePositionsEffect(user)
    \/ /\ TRUE = (\E user \in Users : SettlePositionsResult(user) # "Ok")
       /\ UNCHANGED vars

(***************************************************************************)
(* close_market                                                            *)
(***************************************************************************)
is_settled_or_resolved_empty ==
    \/ market.status = "Settled"
    \/ (market.status = "Resolved" /\ market.total_positions = 0)

is_no_trade_market == market.total_positions = 0 /\ market.open_interest = 0

\* a closure that does not look at the status or the counters of the market
CloseMarketResultAnyStatus(signer) ==
    IF ~Exists(market) THEN "AccountNotInitialized"
    ELSE IF signer # market.authority THEN "Unauthorized"
    ELSE IF ~(now >= market.expiry_at) THEN "MarketNotExpired"
    ELSE IF is_no_trade_market /\ ~(vault = 0) THEN "VaultNotEmpty"
    ELSE "Ok"

CloseMarketResult(signer) ==
    IF ~Exists(market) THEN "AccountNotInitialized"
    ELSE IF signer # market.authority THEN "Unauthorized"
    ELSE IF ~(now >= market.expiry_at) THEN "MarketNotExpired"
    ELSE IF ~(is_settled_or_resolved_empty \/ is_no_trade_market) THEN "MarketNotSettled"
    ELSE IF is_no_trade_market /\ ~(vault = 0) THEN "VaultNotEmpty"
    ELSE "Ok"

\* a closure that sweeps the vault's balance to the fee recipient
CloseMarketPaysFeeRecipient(rent_recipient) ==
    /\ bal' = [bal EXCEPT ![global.fee_recipient] = @ + vault]
    /\ vault' = 0
    /\ market' = NoAccount
    /\ UNCHANGED <<now, global, orders, positions, settled, order, refunded, rejected>>

\* the vault's balance is swept to the rent recipient's token account, the
\* vault and the market account are closed
CloseMarketEffect(rent_recipient) ==
    /\ bal' = [bal EXCEPT ![rent_recipient] = @ + vault]
    /\ vault' = 0
    /\ market' = NoAccount
    /\ UNCHANGED <<now, global, orders, positions, settled, order, refunded, rejected>>

CloseMarket ==
    \/ \E signer \in Signers, rent_recipient \in RentRecipients :
          /\ CloseMarketResult(signer) = "Ok"
          /\ CloseMarketEffect(rent_recipient)
    \/ /\ TRUE = (\E signer \in Signers : CloseMarketResult(signer) # "Ok")
       /\ UNCHANGED vars

(***************************************************************************)
(* The order ledger at full u64 width: place_order, the fill of            *)
(* execute_match and the cancellations, on one order of a funded user.     *)
(***************************************************************************)
WidePrices == {MIN_PRICE, 500000, MAX_PRICE, 995000}
WideSizes == {<<999>>, <<1000>>, <<1501>>, <<0, 0, 10>>, MAX_ORDER_SIZE}
WideMatchSizes == {<<0, 0, 5>>, <<0, 0, 300>>, <<9000, 9999, 999>>}

PlaceOrderWideResult(price, size) ==
    IF Exists(order) THEN "AccountAlreadyInUse"
    ELSE IF ~InPriceRange(price) THEN "InvalidPrice"
    ELSE IF price % TICK_SIZE # 0 THEN "InvalidTickSize"
    ELSE IF ~(LeBig(ToBig(MIN_ORDER_SIZE), size) /\ LeBig(size, MAX_ORDER_SIZE))
         THEN "InvalidSize"
    ELSE "Ok"

PlaceOrderWide ==
    \/ \E side \in Sides, price \in WidePrices, size \in WideSizes :
          /\ PlaceOrderWideResult(price, size) = "Ok"
          /\ LockAmount(side, ToBig(price), size) # None
          /\ order' = [exists |-> TRUE, side |-> side, price |-> price, size |-> size,
                       filled_size |-> <<>>, status |-> "Open",
                       locked_amount |-> LockAmount(side, ToBig(price), size)]
          /\ refunded' = None
          /\ UNCHANGED <<now, global, market, vault, orders, positions, bal, settled, rejected>>
    \/ /\ TRUE = (\E price \in WidePrices, size \in WideSizes :
             PlaceOrderWideResult(price, size) # "Ok")
       /\ UNCHANGED vars

\* execute_match's update of a passed Order PDA
FillOrderWide ==
    \E match_size \in WideMatchSizes :
       /\ Exists(order) /\ is_active(order)
       /\ checked_add(order.filled_size, match_size) # None
       /\ order' = [order EXCEPT
                      !.filled_size = checked_add(@, match_size),
                      !.status = IF LeBig(order.size, checked_add(order.filled_size, match_size))
                                 THEN "Filled" ELSE "PartialFill"]
       /\ UNCHANGED <<now, global, market, vault, orders, positions, bal, settled, refunded, rejected>>

\* cancel_order and cancel_order_by_relayer: the refund is paid and the order
\* account is closed
CancelOrderWide ==
    /\ Exists(order) /\ is_active(order)
    /\ refunded' = RefundAmount(order.filled_size, order.size, order.locked_amount)
    /\ order' = NoAccount
    /\ UNCHANGED <<now, global, market, vault, orders, positions, bal, settled, rejected>>

(***************************************************************************)
(* The position ledger at full u64 width: the share counts that            *)
(* execute_match and execute_close keep, for users whose payments succeed. *)
(* The cost bases, the open interest and the volume are not kept: the      *)
(* arithmetic on them can only reject a trade, never change a share count. *)
(***************************************************************************)
\* the wide trades followed on one market
MaxWideTrades == 6

PositionPrices == {500000}
\* 100_000_000_000 and 100_000_000_001
PositionSizes == {MAX_ORDER_SIZE, <<1, 0, 1000>>}
\* 999, 1000 and 100_000_000_000
PositionCloseSizes == {<<999>>, <<MIN_ORDER_SIZE>>, MAX_ORDER_SIZE}

\* a check of the position limit that accepts every share count
PositionLimitUnchecked(shares, size) ==
    IF checked_add(shares, size) = None THEN "MathOverflow" ELSE "Ok"

\* shares.checked_add(size)? <= MAX_POSITION_SIZE
PositionLimit(shares, size) ==
    IF checked_add(shares, size) = None THEN "MathOverflow"
    ELSE IF ~LeBig(checked_add(shares, size), MAX_POSITION_SIZE)
         THEN "PositionLimitExceeded"
    ELSE "Ok"

\* a position account as init_if_needed leaves it, its u64 fields numerals
WidePosition(user) ==
    IF Exists(positions[user]) THEN positions[user]
    ELSE [exists |-> TRUE, owner |-> user, yes_shares |-> <<>>, no_shares |-> <<>>]

InSizeRangeWide(size) ==
    LeBig(ToBig(MIN_ORDER_SIZE), size) /\ LeBig(size, MAX_ORDER_SIZE)

\* yes_cost, no_cost and taker_fee of an opening trade
MatchCalcWide(is_maker_yes_buyer, yes_price, match_size) ==
    LET yes_cost == CeilCost(ToBig(yes_price), match_size)
        no_cost == CeilCost(ToBig(USDC_MULTIPLIER - yes_price), match_size)
    IN  [yes_cost |-> yes_cost,
         no_cost |-> no_cost,
         taker_fee |-> IF yes_cost = None \/ no_cost = None THEN None
                       ELSE IF is_maker_yes_buyer
                       THEN FeeOf(no_cost, ToBig(global.taker_fee_bps))
                       ELSE FeeOf(yes_cost, ToBig(global.taker_fee_bps))]

IsMakerYesBuyer(side, outcome) ==
    (side = "Bid" /\ outcome = "Yes") \/ (side = "Ask" /\ outcome = "No")

MatchChecksWide(maker, taker, yes_buyer, no_buyer, price, match_size, c) ==
    IF global.paused THEN "ProtocolPaused"
    ELSE IF market.status # "Open" THEN "MarketNotOpen"
    ELSE IF ~is_trading_open(market, now) THEN "MarketClosing"
    ELSE IF maker = taker THEN "SelfTrade"
    ELSE IF ~InPriceRange(price) THEN "InvalidPrice"
    ELSE IF ~InSizeRangeWide(match_size) THEN "InvalidSize"
    ELSE IF c.yes_cost = None \/ c.no_cost = None THEN "MathOverflow"
    ELSE IF PositionLimit(WidePosition(yes_buyer).yes_shares, match_size) # "Ok"
         THEN PositionLimit(WidePosition(yes_buyer).yes_shares, match_size)
    ELSE IF PositionLimit(WidePosition(no_buyer).no_shares, match_size) # "Ok"
         THEN PositionLimit(WidePosition(no_buyer).no_shares, match_size)
    ELSE IF c.taker_fee = None THEN "MathOverflow"
    ELSE "Ok"

\* execute_match between two inline quotes of the same price and size
ExecuteMatchWideResult(maker, taker, side, outcome, price, match_size) ==
    IF ~Exists(global) \/ ~Exists(market) THEN "AccountNotInitialized"
    ELSE MatchChecksWide(maker, taker,
             IF IsMakerYesBuyer(side, outcome) THEN maker ELSE taker,
             IF IsMakerYesBuyer(side, outcome) THEN taker ELSE maker,
             price, match_size,
             MatchCalcWide(IsMakerYesBuyer(side, outcome),
                           IF outcome = "Yes" THEN price ELSE USDC_MULTIPLIER - price,
                           match_size))

MatchEffectWide(maker, taker, yes_buyer, no_buyer, match_size, c) ==
    /\ positions' = [positions EXCEPT
          ![yes_buyer] = [WidePosition(yes_buyer) EXCEPT
                            !.yes_shares = AddBig(@, match_size)],
          ![no_buyer] = [WidePosition(no_buyer) EXCEPT
                            !.no_shares = AddBig(@, match_size)]]
    /\ market' = [market EXCEPT
                    !.total_positions = @ + NewPositions(maker, taker),
                    !.total_trades = @ + 1]
    /\ UNCHANGED <<now, global, vault, orders, bal, settled, order, refunded, rejected>>

ExecuteMatchWideEffect(maker, taker, side, outcome, price, match_size) ==
    MatchEffectWide(maker, taker,
        IF IsMakerYesBuyer(side, outcome) THEN maker ELSE taker,
        IF IsMakerYesBuyer(side, outcome) THEN taker ELSE maker,
        match_size,
        MatchCalcWide(IsMakerYesBuyer(side, outcome),
                      IF outcome = "Yes" THEN price ELSE USDC_MULTIPLIER - price,
                      match_size))

ExecuteMatchWide ==
    \/ /\ Exists(market) /\ market.total_trades < MaxWideTrades
       /\ \E maker \in Users, taker \in Users, side \in Sides, outcome \in Outcomes,
             price \in PositionPrices, match_size \in PositionSizes :
            /\ ExecuteMatchWideResult(maker, taker, side, outcome, price, match_size) = "Ok"
            /\ ExecuteMatchWideEffect(maker, taker, side, outcome, price, match_size)
    \/ /\ TRUE = (\E maker \in Users, taker \in Users, side \in Sides,
                     outcome \in Outcomes, price \in PositionPrices,
                     match_size \in PositionSizes :
            ExecuteMatchWideResult(maker, taker, side, outcome, price, match_size) # "Ok")
       /\ UNCHANGED vars

WideSharesOf(user, outcome) ==
    IF outcome = "Yes" THEN positions[user].yes_shares ELSE positions[user].no_shares

\* transfer_amount and fee of a closing trade
CloseCalcWide(price, size) ==
    LET transfer_amount == CeilCost(ToBig(price), size)
    IN  [transfer_amount |-> transfer_amount,
         fee |-> IF transfer_amount = None THEN None
                 ELSE FeeOf(transfer_amount, ToBig(global.taker_fee_bps))]

CloseChecksWide(buyer, seller, outcome, price, size, c) ==
    IF global.paused THEN "ProtocolPaused"
    ELSE IF market.status # "Open" THEN "MarketNotOpen"
    ELSE IF ~is_trading_open(market, now) THEN "MarketClosing"
    ELSE IF buyer = seller THEN "SelfTrade"
    ELSE IF ~InPriceRange(price) THEN "InvalidPrice"
    ELSE IF ~InSizeRangeWide(size) THEN "InvalidSize"
    ELSE IF ~LeBig(size, WideSharesOf(seller, outcome)) THEN "InsufficientShares"
    ELSE IF PositionLimit(WideSharesOf(buyer, outcome), size) # "Ok"
         THEN PositionLimit(WideSharesOf(buyer, outcome), size)
    ELSE IF c.transfer_amount = None \/ c.fee = None THEN "MathOverflow"
    ELSE "Ok"

ExecuteCloseWideResult(buyer, seller, outcome, price, size) ==
    IF ~Exists(global) \/ ~Exists(market) THEN "AccountNotInitialized"
    ELSE IF ~Exists(positions[buyer]) \/ ~Exists(positions[seller])
         THEN "AccountNotInitialized"
    ELSE CloseChecksWide(buyer, seller, outcome, price, size,
             CloseCalcWide(price, size))

CloseEffectWide(buyer, seller, outcome, size, c) ==
    /\ positions' =
          IF outcome = "Yes"
          THEN [positions EXCEPT
                  ![seller] = [@ EXCEPT !.yes_shares = SubBig(@, size)],
                  ![buyer] = [@ EXCEPT !.yes_shares = AddBig(@, size)]]
          ELSE [positions EXCEPT
                  ![seller] = [@ EXCEPT !.no_shares = SubBig(@, size)],
                  ![buyer] = [@ EXCEPT !.no_shares = AddBig(@, size)]]
    /\ market' = [market EXCEPT !.total_trades = @ + 1]
    /\ UNCHANGED <<now, global, vault, orders, bal, settled, order, refunded, rejected>>

ExecuteCloseWideEffect(buyer, seller, outcome, price, size) ==
    CloseEffectWide(buyer, seller, outcome, size, CloseCalcWide(price, size))

ExecuteCloseWide ==
    \/ /\ Exists(market) /\ market.total_trades < MaxWideTrades
       /\ \E buyer \in Users, seller \in Users, outcome \in Outcomes,
             price \in PositionPrices, size \in PositionCloseSizes :
            /\ ExecuteCloseWideResult(buyer, seller, outcome, price, size) = "Ok"
            /\ ExecuteCloseWideEffect(buyer, seller, outcome, price, size)
    \/ /\ TRUE = (\E buyer \in Users, seller \in Users, outcome \in Outcomes,
                     price \in PositionPrices, size \in PositionCloseSizes :
            ExecuteCloseWideResult(buyer, seller, outcome, price, size) # "Ok")
       /\ UNCHANGED vars

NextPosition ==
    \/ InitializeGlobal
    \/ InitializeMarket
    \/ ExecuteMatchWide
    \/ ExecuteCloseWide

SpecPosition == Init /\ [][NextPosition]_vars

NextRefund == PlaceOrderWide \/ FillOrderWide \/ CancelOrderWide

SpecRefund == Init /\ [][NextRefund]_vars

Next ==
    \/ Tick
    \/ InitializeGlobal
    \/ PauseProtocol
    \/ InitializeMarket
    \/ ActivateMarket
    \/ PlaceOrder
    \/ CancelOrder
    \/ CancelOrderByRelayer
    \/ ExecuteMatch
    \/ ExecuteClose
    \/ ResolveMarket
    \/ SettlePositions
    \/ CloseMarket

Spec == Init /\ [][Next]_vars

(***************************************************************************)
(* Rejected calls: an instruction that returns Err aborts its transaction, *)
(* and the runtime discards every write the handler and its token          *)
(* transfers made.  The history variable rejected records that a call was  *)
(* rejected.                                                               *)
(***************************************************************************)
\* a rejected call whose first token transfer into the vault stays in place
TransferKept ==
    /\ vault' = vault + 1
    /\ UNCHANGED <<now, global, market, orders, positions, bal, settled, order, refunded>>

\* the state after a call that returned Err
RolledBack ==
    UNCHANGED <<now, global, market, vault, orders, positions, bal, settled, order,
                refunded>>

PlaceOrderRejected ==
    /\ TRUE = (\E user \in Users, args \in PlaceArgs : PlaceOrderResult(user, args) # "Ok")
    /\ rejected' = TRUE
    /\ RolledBack

CancelOrderRejected ==
    /\ TRUE = (\E signer \in Signers, key \in OrderKeys :
          CancelOrderResult(signer, key) # "Ok")
    /\ rejected' = TRUE
    /\ RolledBack

CancelOrderByRelayerRejected ==
    /\ TRUE = (\E signer \in Signers, key \in OrderKeys :
          CancelOrderByRelayerResult(signer, key) # "Ok")
    /\ rejected' = TRUE
    /\ RolledBack

ExecuteMatchRejected ==
    /\ TRUE = (\E maker \in Users, taker \in Users :
          \E mk \in OwnKeys(maker), tk \in OwnKeys(taker) :
          \E margs \in ArgsFor(mk), targs \in ArgsFor(tk), match_size \in MatchSizes :
            ExecuteMatchResult(maker, taker, mk, tk, margs, targs, match_size) # "Ok")
    /\ rejected' = TRUE
    /\ RolledBack

ExecuteCloseRejected ==
    /\ TRUE = (\E buyer \in Users, seller \in Users, args \in CloseTradeArgs :
          ExecuteCloseResult(buyer, seller, args) # "Ok")
    /\ rejected' = TRUE
    /\ RolledBack

ResolveMarketRejected ==
    /\ TRUE = (\E outcome \in ResolveOutcomes, final_price \in FinalPrices :
          ResolveMarketResult(outcome, final_price) # "Ok")
    /\ rejected' = TRUE
    /\ RolledBack

SettlePositionsRejected ==
    /\ TRUE = (\E user \in Users : SettlePositionsResult(user) # "Ok")
    /\ rejected' = TRUE
    /\ RolledBack

CloseMarketRejected ==
    /\ TRUE = (\E signer \in Signers : CloseMarketResult(signer) # "Ok")
    /\ rejected' = TRUE
    /\ RolledBack

NextRejected ==
    \/ Next
    \/ PlaceOrderRejected
    \/ CancelOrderRejected
    \/ CancelOrderByRelayerRejected
    \/ ExecuteMatchRejected
    \/ ExecuteCloseRejected
    \/ ResolveMarketRejected
    \/ SettlePositionsRejected
    \/ CloseMarketRejected

SpecRejected == Init /\ [][NextRejected]_vars

(***************************************************************************)
(* Properties                                                              *)
(***************************************************************************)
RECURSIVE SumOver(_, _)
SumOver(S, f) ==
    IF S = {} THEN 0
    ELSE LET x == CHOOSE x \in S : TRUE IN f[x] + SumOver(S \ {x}, f)

StoredOrders == {k \in OrderKeys : Exists(orders[k])}
ActiveOrders == {k \in StoredOrders : is_active(orders[k])}
OpenPositions == {u \in Users : Exists(positions[u])}

\* the winning-outcome shares of the positions not yet settled
WinningShares ==
    SumOver(OpenPositions, [u \in OpenPositions |-> Payout(positions[u])])

\* C1: after any sequence of place_order, execute_match and cancellations
\* every stored Order has 0 <= filled_size <= size: no match fills an
\* escrowed order beyond its remaining size.
C1_FilledWithinSize ==
    \A k \in StoredOrders :
        0 <= orders[k].filled_size /\ orders[k].filled_size <= orders[k].size

\* C2: while the market is Resolved the vault holds at least the winning
\* shares of all unsettled positions, so that no settle_positions fails with
\* InsufficientVaultBalance.
C2_VaultCoversWinners ==
    (Exists(market) /\ market.status = "Resolved") =>
        /\ vault >= WinningShares
        /\ \A u \in Users : SettlePositionsResult(u) # "InsufficientVaultBalance"

\* the part of an order's locked collateral that stands for match_size of
\* its size, rounded up
CollateralFor(o, match_size) ==
    (o.locked_amount * match_size + o.size - 1) \div o.size

\* C3: in every opening trade that execute_match accepts, the payment
\* required of an escrowed counterparty (the cost of its leg, plus the fee
\* for the taker) is covered by the collateral its order locked for the
\* matched size, so the fee is not paid out of other funds in the vault.
C3_PaymentCollected ==
    (Exists(global) /\ Exists(market)) =>
        \A maker \in Users, taker \in Users :
        \A mk \in OwnKeys(maker), tk \in OwnKeys(taker) :
        \A margs \in ArgsFor(mk), targs \in ArgsFor(tk), match_size \in MatchSizes :
            ExecuteMatchResult(maker, taker, mk, tk, margs, targs, match_size) = "Ok" =>
                /\ mk # NoKey =>
                     FromBig(MatchCalc(OrderData(mk, margs), match_size).maker_cost)
                         <= CollateralFor(orders[mk], match_size)
                /\ tk # NoKey =>
                     FromBig(MatchCalc(OrderData(mk, margs), match_size).taker_cost)
                         <= CollateralFor(orders[tk], match_size)

\* the locked collateral the active orders can still be refunded
RefundableCollateral ==
    SumOver(ActiveOrders, [k \in ActiveOrders |-> refund_amount(orders[k])])

\* one unit per matched share until the outcome is known, then the winning
\* shares of the unsettled positions
PayoutLiability ==
    IF market.outcome = "Pending" THEN market.open_interest ELSE WinningShares

\* C4: from the close of trading (now >= expiry_at - 30) until the market is
\* closed, the vault balance equals the refundable collateral of the active
\* orders plus the payout liability of the unsettled positions.
C4_VaultEqualsObligations ==
    (Exists(market) /\ now >= market.expiry_at - TRADING_CLOSE_BUFFER) =>
        vault = RefundableCollateral + PayoutLiability

\* the refund computed without any limit on the width of the product
ExactRefund(o) ==
    IF o.filled_size = <<>> THEN o.locked_amount
    ELSE IF LeBig(o.size, o.filled_size) THEN <<>>
    ELSE DivBig(MulLong(o.locked_amount, SubBig(o.size, o.filled_size)), o.size)

\* C5: every cancellation of an order of a valid size refunds locked_amount
\* when nothing is filled, 0 when the order is filled, and otherwise exactly
\* floor(locked_amount * (size - filled_size) / size).
C5_RefundExact ==
    [][(Exists(order) /\ ~Exists(order')) => refunded' = ExactRefund(order)]_vars

\* C6: a stored order is Filled iff filled_size = size and PartialFill iff
\* 0 < filled_size < size.
C6_StatusMatchesFill ==
    \A k \in StoredOrders :
        /\ orders[k].status = "Filled" <=> orders[k].filled_size = orders[k].size
        /\ orders[k].status = "PartialFill" <=>
               (0 < orders[k].filled_size /\ orders[k].filled_size < orders[k].size)

C8_SettlePaysWinningShares ==
    [][\A u \in Users :
          settled'[u] = settled[u] + 1 =>
             /\ market.status = "Resolved"
             /\ market.outcome \in {"Yes", "No"}
             /\ bal'[u] - bal[u] =
                   (IF market.outcome = "Yes" THEN positions[u].yes_shares
                    ELSE positions[u].no_shares)
             /\ vault - vault' =
                   (IF market.outcome = "Yes" THEN positions[u].yes_shares
                    ELSE positions[u].no_shares)]_vars

\* a settlement has paid a winner more than its starting balance
C8_WinnerPaid == \E u \in Users : settled[u] = 1 /\ bal[u] > InitialBalance

StatusRank(status) ==
    CASE status = "Pending" -> 0
      [] status = "Open" -> 1
      [] status = "Closed" -> 2
      [] status = "Resolved" -> 3
      [] status = "Settled" -> 4

\* C9: the status of a market only advances along
\* Pending -> Open -> Closed -> Resolved -> Settled.
C9_StatusAdvances ==
    [][(Exists(market) /\ Exists(market')) =>
          StatusRank(market'.status) >= StatusRank(market.status)]_vars

\* a market activated from Pending has been resolved and fully settled
C9_MarketSettled ==
    Exists(market) /\ market.status = "Settled" /\ market.settled_positions = 2

\* C10: the outcome is Pending exactly while the status is before Resolved;
\* resolve_market sets it to Yes or No, every resolve of a resolved market
\* fails with MarketAlreadyResolved, and the outcome never changes again.
C10_OutcomeSetOnce ==
    /\ [](Exists(market) =>
            /\ market.outcome = "Pending" <=>
                   market.status \in {"Pending", "Open", "Closed"}
            /\ market.status \in {"Resolved", "Settled"} =>
                   \A outcome \in ResolveOutcomes, final_price \in FinalPrices :
                       ResolveMarketResult(outcome, final_price) = "MarketAlreadyResolved")
    /\ [][(Exists(market) /\ Exists(market')) =>
             /\ market.outcome # "Pending" => market'.outcome = market.outcome
             /\ (market.outcome = "Pending" /\ market'.outcome # "Pending") =>
                    /\ market'.status = "Resolved"
                    /\ market'.outcome \in {"Yes", "No"}]_vars

\* a market has been resolved NO
C10_ResolvedNo ==
    Exists(market) /\ market.status = "Resolved" /\ market.outcome = "No"

\* the errors of the checks that run before the checks on the market
EarlierErrors ==
    {"AccountNotInitialized", "AccountAlreadyInUse", "Unauthorized",
     "OrderNotActive", "ProtocolPaused"}

TradingWindow ==
    Exists(market) /\ market.status = "Open"
        /\ now < market.expiry_at - TRADING_CLOSE_BUFFER

\* C11: place_order, execute_match and execute_close take effect only while
\* the market is Open and the time is strictly before expiry_at - 30; outside
\* that window each of them fails, with MarketNotOpen or MarketClosing unless
\* an earlier check has already rejected the call (a missing or already
\* allocated account, the checks on a passed Order PDA, ProtocolPaused).
C11_TradingOnlyInWindow ==
    /\ [](~TradingWindow =>
            /\ \A user \in Users, args \in PlaceArgs :
                  PlaceOrderResult(user, args)
                      \in {"MarketNotOpen"} \cup EarlierErrors
            /\ \A maker \in Users, taker \in Users :
               \A mk \in OwnKeys(maker), tk \in OwnKeys(taker) :
               \A margs \in ArgsFor(mk), targs \in ArgsFor(tk) :
                  ExecuteMatchResult(maker, taker, mk, tk, margs, targs, MIN_ORDER_SIZE)
                      \in {"MarketNotOpen", "MarketClosing"} \cup EarlierErrors
            /\ \A buyer \in Users, seller \in Users, args \in CloseTradeArgs :
                  ExecuteCloseResult(buyer, seller, args)
                      \in {"MarketNotOpen", "MarketClosing"} \cup EarlierErrors)
    /\ [][(\/ \E k \in OrderKeys : ~Exists(orders[k]) /\ Exists(orders'[k])
           \/ \E k \in OrderKeys :
                 Exists(orders[k]) /\ Exists(orders'[k])
                     /\ orders'[k].filled_size # orders[k].filled_size
           \/ Exists(market) /\ Exists(market')
                 /\ market'.total_trades # market.total_trades)
              => TradingWindow]_vars

\* inside the close buffer of an Open market that has traded, a placement is
\* rejected with MarketNotOpen, a match and a closing trade with MarketClosing
C11_RejectedInBuffer ==
    /\ Exists(market) /\ market.status = "Open" /\ market.total_trades > 0
    /\ now >= market.expiry_at - TRADING_CLOSE_BUFFER /\ now < market.expiry_at
    /\ \E user \in Users, args \in PlaceArgs :
          PlaceOrderResult(user, args) = "MarketNotOpen"
    /\ \E args \in QuoteArgs :
          ExecuteMatchResult("alice", "bob", NoKey, NoKey, args, args, 1000)
              = "MarketClosing"
    /\ \E buyer \in Users, seller \in Users, args \in CloseTradeArgs :
          ExecuteCloseResult(buyer, seller, args) = "MarketClosing"

\* C12: resolve_market succeeds exactly when now >= expiry_at, the status is
\* Open or Closed, the outcome argument is 0 or 1 and final_price > 0.  It
\* fails with MarketNotExpired when early, with MarketAlreadyResolved on a
\* resolved market and with InvalidOraclePrice when only the final price is
\* at fault.  A successful call sets the status to Resolved, the final price
\* to the argument and the outcome to Yes for 0 and No for 1.
C12_ResolveChecksAndEffect ==
    /\ [](Exists(market) =>
            \A outcome \in ResolveOutcomes, final_price \in FinalPrices :
               /\ ResolveMarketResult(outcome, final_price) = "Ok" <=>
                     /\ now >= market.expiry_at
                     /\ market.status \in {"Open", "Closed"}
                     /\ outcome \in {0, 1}
                     /\ final_price > 0
               /\ now < market.expiry_at =>
                     ResolveMarketResult(outcome, final_price) = "MarketNotExpired"
               /\ market.status \in {"Resolved", "Settled"} =>
                     ResolveMarketResult(outcome, final_price) = "MarketAlreadyResolved"
               /\ (/\ now >= market.expiry_at
                   /\ market.status \in {"Open", "Closed"}
                   /\ outcome \in {0, 1}
                   /\ final_price = 0) =>
                     ResolveMarketResult(outcome, final_price) = "InvalidOraclePrice")
    /\ [][\A outcome \in ResolveOutcomes, final_price \in FinalPrices :
             (/\ ResolveMarketResult(outcome, final_price) = "Ok"
              /\ ResolveMarketEffect(outcome, final_price)) =>
                /\ market'.status = "Resolved"
                /\ market'.final_price = final_price
                /\ market'.outcome = (IF outcome = 0 THEN "Yes" ELSE "No")]_vars
    /\ [][(Exists(market) /\ Exists(market') /\ market'.status = "Resolved"
             /\ market.status # "Resolved") =>
                /\ now >= market.expiry_at
                /\ market.status \in {"Open", "Closed"}
                /\ market'.final_price > 0]_vars

\* a market that has traded has been resolved YES at its expiry
C12_ResolvedYes ==
    /\ Exists(market) /\ market.status = "Resolved" /\ market.outcome = "Yes"
    /\ market.final_price > 0 /\ market.resolved_at >= market.expiry_at
    /\ market.total_trades > 0

\* C13: a market becomes Settled in exactly the settle_positions call that
\* makes settled_positions equal to total_positions, and that call stamps
\* settled_at; while a position created by a trade is unsettled the market
\* is not Settled.
C13_SettledWhenAllSettled ==
    /\ [](Exists(market) =>
            /\ market.status = "Settled" =>
                  /\ OpenPositions = {}
                  /\ market.settled_positions = market.total_positions
                  /\ market.settled_at >= market.expiry_at
            /\ market.status # "Settled" => market.settled_at = 0)
    /\ [][(Exists(market) /\ Exists(market')) =>
             /\ (market'.status = "Settled" /\ market.status # "Settled") <=>
                   /\ market'.settled_positions = market.settled_positions + 1
                   /\ market'.settled_positions = market'.total_positions
             /\ (market'.status = "Settled" /\ market.status # "Settled") =>
                   /\ market'.settled_at = now
                   /\ \E u \in Users : settled'[u] = settled[u] + 1]_vars

\* both positions of a market are settled and the market is Settled
C13_AllSettled ==
    /\ Exists(market) /\ market.status = "Settled"
    /\ market.total_positions = 2 /\ market.settled_at >= market.expiry_at
    /\ \A u \in Users : settled[u] = 1

\* C14: in every reachable state settled_positions <= total_positions.
C14_SettledWithinTotal ==
    Exists(market) => market.settled_positions <= market.total_positions

\* one of the two positions of a Resolved market is settled, one is not
C14_HalfSettled ==
    /\ Exists(market) /\ market.status = "Resolved"
    /\ market.settled_positions = 1 /\ market.total_positions = 2

\* the market is expired and Settled, or Resolved without positions, or has
\* never traded
MayBeClosed ==
    /\ now >= market.expiry_at
    /\ \/ market.status = "Settled"
       \/ market.status = "Resolved" /\ market.total_positions = 0
       \/ market.total_positions = 0 /\ market.open_interest = 0

CloseMarketStep == Exists(market) /\ ~Exists(market')

\* C15: close_market succeeds only when now >= expiry_at and the market is
\* Settled, or Resolved with no positions, or has total_positions = 0 and
\* open_interest = 0; otherwise the authority's call fails with
\* MarketNotExpired or MarketNotSettled (any other signer's with
\* Unauthorized) and the market and the vault stay as they are.
C15_CloseOnlyWhenDone ==
    /\ [](Exists(market) =>
            \A signer \in Signers :
               /\ CloseMarketResult(signer) = "Ok" => MayBeClosed
               /\ ~MayBeClosed =>
                     CloseMarketResult(signer) =
                        IF signer # market.authority THEN "Unauthorized"
                        ELSE IF now < market.expiry_at THEN "MarketNotExpired"
                        ELSE "MarketNotSettled")
    /\ [][CloseMarketStep => MayBeClosed]_vars

\* a market whose two positions were settled has been closed
C15_ClosedAfterSettlement ==
    /\ ~Exists(market) /\ Exists(global) /\ global.total_markets = 1
    /\ \A u \in Users : settled[u] = 1

\* C16: whenever close_market succeeds the vault holds no collateral that is
\* still refundable to an active order and no unpaid settlement payout; on
\* the no-trade path a non-zero vault makes it fail with VaultNotEmpty.
C16_CloseSweepsNoUserFunds ==
    [][CloseMarketStep =>
          /\ \A k \in ActiveOrders : refund_amount(orders[k]) = 0
          /\ WinningShares = 0
          /\ (market.total_positions = 0 /\ market.open_interest = 0) => vault = 0]_vars

\* C17: close_market requires the vault balance to be 0 and the status to be
\* Settled: it never succeeds on a market whose vault holds a balance.
C17_CloseRequiresEmptyVault ==
    [][CloseMarketStep => (vault = 0 /\ market.status = "Settled")]_vars

OnPriceGrid(price) ==
    price >= MIN_PRICE /\ price <= MAX_PRICE /\ price % TICK_SIZE = 0

\* C19: every price that place_order, execute_match (in the stored or inline
\* order data of the maker and of the taker) and execute_close accept is a
\* multiple of 10000 in [10000, 990000], and every size and match_size they
\* accept is in [1000, 100_000_000_000].
C19_AcceptedOnGrid ==
    (Exists(global) /\ Exists(market)) =>
        /\ \A user \in Users, args \in PlaceArgs :
              PlaceOrderResult(user, args) = "Ok" =>
                  OnPriceGrid(args.price) /\ InSizeRange(args.size)
        /\ \A maker \in Users, taker \in Users :
           \A mk \in OwnKeys(maker), tk \in OwnKeys(taker) :
           \A margs \in ArgsFor(mk), targs \in ArgsFor(tk), match_size \in MatchSizes :
              ExecuteMatchResult(maker, taker, mk, tk, margs, targs, match_size) = "Ok" =>
                  /\ OnPriceGrid(OrderData(mk, margs).price)
                  /\ OnPriceGrid(OrderData(tk, targs).price)
                  /\ InSizeRange(OrderData(mk, margs).size)
                  /\ InSizeRange(OrderData(tk, targs).size)
                  /\ InSizeRange(match_size)
        /\ \A buyer \in Users, seller \in Users, args \in CloseTradeArgs :
              ExecuteCloseResult(buyer, seller, args) = "Ok" =>
                  OnPriceGrid(args.price) /\ InSizeRange(args.size)

\* C20: every position's yes_shares and no_shares are at most
\* 500_000_000_000; execute_match and execute_close accept no trade that
\* would take a receiving position beyond the cap, and reject it with
\* PositionLimitExceeded when no earlier check fails.
C20_SharesWithinCap ==
    /\ \A u \in OpenPositions :
          /\ LeBig(positions[u].yes_shares, MAX_POSITION_SIZE)
          /\ LeBig(positions[u].no_shares, MAX_POSITION_SIZE)
    /\ (Exists(global) /\ Exists(market)) =>
          /\ \A maker \in Users, taker \in Users, outcome \in Outcomes,
                price \in PositionPrices, match_size \in PositionSizes :
                LET result == ExecuteMatchWideResult(maker, taker, "Bid", outcome,
                                                     price, match_size)
                    yes_buyer == IF outcome = "Yes" THEN maker ELSE taker
                    no_buyer == IF outcome = "Yes" THEN taker ELSE maker
                    over == \/ LtBig(MAX_POSITION_SIZE,
                                     AddBig(WidePosition(yes_buyer).yes_shares, match_size))
                            \/ LtBig(MAX_POSITION_SIZE,
                                     AddBig(WidePosition(no_buyer).no_shares, match_size))
                IN  /\ over => result # "Ok"
                    /\ (over /\ maker # taker /\ InSizeRangeWide(match_size)) =>
                           result = "PositionLimitExceeded"
          /\ \A buyer \in OpenPositions, seller \in OpenPositions, outcome \in Outcomes,
                price \in PositionPrices, size \in PositionCloseSizes :
                LET result == ExecuteCloseWideResult(buyer, seller, outcome, price, size)
                    over == LtBig(MAX_POSITION_SIZE,
                                  AddBig(WideSharesOf(buyer, outcome), size))
                IN  /\ over => result # "Ok"
                    /\ (over /\ buyer # seller /\ InSizeRangeWide(size)
                          /\ LeBig(size, WideSharesOf(seller, outcome))) =>
                           result = "PositionLimitExceeded"

\* a position holds exactly the cap, and the next opening trade and the next
\* closing trade into it are rejected
C20_PositionAtCap ==
    /\ Exists(global) /\ Exists(market) /\ OpenPositions = Users
    /\ positions["alice"].yes_shares = MAX_POSITION_SIZE
    /\ positions["bob"].yes_shares # <<>>
    /\ ExecuteMatchWideResult("alice", "bob", "Bid", "Yes", 500000, MAX_ORDER_SIZE)
          = "PositionLimitExceeded"
    /\ ExecuteCloseWideResult("alice", "bob", "Yes", 500000, <<MIN_ORDER_SIZE>>)
          = "PositionLimitExceeded"

(***************************************************************************)
(* C21: place_order locks the ceiling of the order's cost                  *)
(***************************************************************************)
\* n is the least number of micro-USDC covering unit_price * size / 10^6
IsCeilingCost(n, unit_price, size) ==
    /\ n * SHARE_MULTIPLIER >= unit_price * size
    /\ (n - 1) * SHARE_MULTIPLIER < unit_price * size

\* the price a side pays per share: the price for a Bid, 1e6 - price for an Ask
UnitPrice(side, price) == IF side = "Bid" THEN price ELSE USDC_MULTIPLIER - price

\* C21: place_order locks exactly ceil(price * size / 10^6) for a Bid and
\* ceil((10^6 - price) * size / 10^6) for an Ask; it fails with
\* InsufficientBalance when the payer's balance is below that amount and every
\* earlier check passes; on success the vault grows and the payer's balance
\* falls by the locked amount and the order is stored with filled_size 0 and
\* status Open. A Bid at 500000 for 100_000_000 shares locks 50_000_000.
C21_LocksCeilingCost ==
    /\ LockAmount("Bid", ToBig(500000), <<0, 0, 1>>) = <<0, 5000>>
    /\ [](\A user \in Users, args \in PlaceArgs :
            LET result == PlaceOrderResult(user, args)
            IN  /\ result = "Ok" =>
                     \E n \in 0..bal[user] :
                        IsCeilingCost(n, UnitPrice(args.side, args.price), args.size)
                /\ result = "InsufficientBalance" =>
                     ~(\E n \in 0..bal[user] :
                        IsCeilingCost(n, UnitPrice(args.side, args.price), args.size)))
    /\ [][\A k \in OrderKeys :
            (~Exists(orders[k]) /\ Exists(orders'[k])) =>
               LET o == orders'[k]
               IN  /\ IsCeilingCost(o.locked_amount, UnitPrice(o.side, o.price), o.size)
                   /\ o.filled_size = 0
                   /\ o.status = "Open"
                   /\ vault' = vault + o.locked_amount
                   /\ bal' = [bal EXCEPT ![o.owner] = @ - o.locked_amount]
                   /\ bal[o.owner] >= o.locked_amount]_vars

\* an Ask at 600000 for 1501 shares is stored Open and unfilled with the
\* rounded-up 601 locked in the vault, while the other user's balance no
\* longer covers an order
C21_AskLockedRoundedUp ==
    \E k \in OrderKeys :
       /\ Exists(orders[k])
       /\ orders[k].side = "Ask" /\ orders[k].price = 600000 /\ orders[k].size = 1501
       /\ orders[k].status = "Open" /\ orders[k].filled_size = 0
       /\ orders[k].locked_amount = 601
       /\ vault >= 601
       /\ \E user \in Users, args \in PlaceArgs :
             PlaceOrderResult(user, args) = "InsufficientBalance"

(***************************************************************************)
(* C22: matches need crossing prices and execute at the maker's price      *)
(***************************************************************************)
\* the cost bases of a position account, absent accounts counting as empty
CostBasisOf(p) == IF Exists(p) THEN p.yes_cost_basis + p.no_cost_basis ELSE 0

\* C22: execute_match succeeds only if the taker's price is <= the maker's
\* when the maker is a Bid and >= the maker's when the maker is an Ask; a call
\* that fails with PriceMismatch has prices that do not cross; the trade
\* executes at the maker's price: the maker pays the ceiling of its own unit
\* price times the matched size, the taker the ceiling of the complement plus
\* the fee on it.
C22_CrossAtMakerPrice ==
    /\ []((TradingWindow /\ Exists(global)) =>
            \A maker \in Users, taker \in Users :
            \A mk \in OwnKeys(maker), tk \in OwnKeys(taker) :
            \A margs \in ArgsFor(mk), targs \in ArgsFor(tk) :
               LET md == OrderData(mk, margs)
                   td == OrderData(tk, targs)
                   r == ExecuteMatchResult(maker, taker, mk, tk, margs, targs,
                                           MIN_ORDER_SIZE)
                   cross == \/ md.side = "Bid" /\ td.price <= md.price
                            \/ md.side = "Ask" /\ td.price >= md.price
               IN  /\ r = "Ok" => cross
                   /\ r = "PriceMismatch" => ~cross)
    /\ [][(Exists(market) /\ Exists(market')
              /\ market'.open_interest # market.open_interest) =>
            \A maker \in Users, taker \in Users :
            \A mk \in OwnKeys(maker), tk \in OwnKeys(taker) :
            \A margs \in MatchArgsFor(mk), targs \in MatchArgsFor(tk) :
            \A match_size \in MatchSizes :
               (/\ ExecuteMatchResult(maker, taker, mk, tk, margs, targs, match_size)
                      = "Ok"
                /\ ExecuteMatchEffect(maker, taker, mk, tk, margs, targs, match_size))
               => LET md == OrderData(mk, margs)
                      unit == UnitPrice(md.side, md.price)
                      maker_paid == CostBasisOf(positions'[maker])
                                        - CostBasisOf(positions[maker])
                      taker_paid == CostBasisOf(positions'[taker])
                                        - CostBasisOf(positions[taker])
                  IN  /\ IsCeilingCost(maker_paid, unit, match_size)
                      /\ \E n \in 0..taker_paid :
                            /\ IsCeilingCost(n, USDC_MULTIPLIER - unit, match_size)
                            /\ taker_paid =
                                 n + (n * global.taker_fee_bps) \div BPS_DENOMINATOR]_vars

\* alice's stored Bid at 600000 and bob's stored Ask at 400000 have traded
\* 1000 shares with bob as the maker: alice paid bob's price, 400 and the fee
\* of 20, and bob the complement of 600
C22_TakerPaidMakerPrice ==
    /\ Exists(orders[<<"alice", 1>>]) /\ Exists(orders[<<"bob", 1>>])
    /\ orders[<<"alice", 1>>].side = "Bid" /\ orders[<<"alice", 1>>].price = 600000
    /\ orders[<<"bob", 1>>].side = "Ask" /\ orders[<<"bob", 1>>].price = 400000
    /\ orders[<<"alice", 1>>].filled_size = 1000
    /\ orders[<<"bob", 1>>].filled_size = 1000
    /\ Exists(positions["alice"]) /\ positions["alice"].yes_shares = 1000
    /\ positions["alice"].yes_cost_basis = 420
    /\ Exists(positions["bob"]) /\ positions["bob"].no_cost_basis = 600

SalesWithinHolding ==
    [][\A u \in Users :
          (Exists(positions[u]) /\ Exists(positions'[u])) =>
             /\ positions'[u].yes_shares >= 0
             /\ positions'[u].no_shares >= 0
             /\ positions[u].yes_shares - positions'[u].yes_shares
                   <= positions[u].yes_shares
             /\ positions[u].no_shares - positions'[u].no_shares
                   <= positions[u].no_shares]_vars

\* C24: the calls being serialized, the execute_match calls against one stored
\* order never fill more than what remained of its size before each of them,
\* so that two of them together fill at most its size, and the execute_close
\* calls against one seller position never sell more shares of an outcome
\* than the seller held
C24_NoOverdrawUnderSerialization ==
    /\ [][\A k \in OrderKeys :
            (Exists(orders[k]) /\ Exists(orders'[k])) =>
               orders'[k].filled_size - orders[k].filled_size
                  <= remaining_size(orders[k])]_vars
    /\ SalesWithinHolding

(***************************************************************************)
(* C25: a closing trade moves existing shares                              *)
(***************************************************************************)
\* the shares of an outcome a position account holds
HeldShares(p, outcome) == IF outcome = "Yes" THEN p.yes_shares ELSE p.no_shares

OtherOutcome(outcome) == IF outcome = "Yes" THEN "No" ELSE "Yes"

\* C25: execute_close succeeds only if the seller holds at least size shares
\* of the sold outcome, and a call rejected with InsufficientShares has a
\* seller holding fewer; a successful call moves exactly size shares of that
\* outcome from the seller's position to the buyer's, leaves the shares of
\* the other outcome of both positions and the positions of everyone else as
\* they were, and changes neither open_interest, total_positions nor the
\* vault balance.
C25_CloseMovesShares ==
    /\ []((Exists(global) /\ Exists(market)) =>
            \A buyer \in Users, seller \in Users, args \in CloseTradeArgs :
               LET r == ExecuteCloseResult(buyer, seller, args)
               IN  /\ r = "Ok" =>
                        HeldShares(positions[seller], args.outcome) >= args.size
                   /\ r = "InsufficientShares" =>
                        /\ Exists(positions[seller])
                        /\ HeldShares(positions[seller], args.outcome) < args.size)
    /\ [][\A buyer \in Users, seller \in Users, args \in CloseTradeArgs :
            (/\ Exists(global) /\ Exists(market) /\ Exists(market')
             /\ market'.total_trades # market.total_trades
             /\ ExecuteCloseResult(buyer, seller, args) = "Ok"
             /\ ExecuteCloseEffect(buyer, seller, args))
            => LET this == args.outcome
                   other == OtherOutcome(args.outcome)
               IN  /\ HeldShares(positions'[seller], this)
                         = HeldShares(positions[seller], this) - args.size
                   /\ HeldShares(positions'[buyer], this)
                         = HeldShares(positions[buyer], this) + args.size
                   /\ HeldShares(positions'[seller], other)
                         = HeldShares(positions[seller], other)
                   /\ HeldShares(positions'[buyer], other)
                         = HeldShares(positions[buyer], other)
                   /\ \A u \in Users \ {buyer, seller} : positions'[u] = positions[u]
                   /\ market'.open_interest = market.open_interest
                   /\ market'.total_positions = market.total_positions
                   /\ vault' = vault]_vars

\* one match of 1000 and one closing trade: the two trades left an open
\* interest of 1000, the seller sold its 1000 shares and the buyer holds the
\* 1000 shares of both outcomes
C25_SharesSoldToCounterparty ==
    /\ Exists(market) /\ market.total_trades = 2 /\ market.open_interest = 1000
    /\ \E buyer \in Users, seller \in Users :
          /\ buyer # seller
          /\ Exists(positions[buyer]) /\ Exists(positions[seller])
          /\ positions[seller].yes_shares = 0 /\ positions[seller].no_shares = 0
          /\ positions[buyer].yes_shares = 1000 /\ positions[buyer].no_shares = 1000

(***************************************************************************)
(* C26: the payment legs of a closing trade                                *)
(***************************************************************************)
\* C26: a closing trade at price for size, with transfer_amount the ceiling
\* of price * size / 10^6 and fee the floor of transfer_amount *
\* taker_fee_bps / 10000, takes exactly transfer_amount from the buyer's
\* balance, adds transfer_amount - fee to the seller's and fee to the fee
\* recipient's, and touches no other balance: the buyer's debit is the sum of
\* the two credits.
C26_CloseLegsBalance ==
    [][\A buyer \in Users, seller \in Users, args \in CloseTradeArgs :
          (/\ Exists(global) /\ Exists(market) /\ Exists(market')
           /\ market'.total_trades # market.total_trades
           /\ ExecuteCloseResult(buyer, seller, args) = "Ok"
           /\ ExecuteCloseEffect(buyer, seller, args))
          => LET debit == bal[buyer] - bal'[buyer]
                 credit == bal'[seller] - bal[seller]
                 fee == (debit * global.taker_fee_bps) \div BPS_DENOMINATOR
             IN  /\ IsCeilingCost(debit, args.price, args.size)
                 /\ credit = debit - fee
                 /\ bal'[FeeRecipient] - bal[FeeRecipient] = fee
                 /\ debit = credit + (bal'[FeeRecipient] - bal[FeeRecipient])
                 /\ \A a \in Accounts \ {buyer, seller, FeeRecipient} :
                       bal'[a] = bal[a]]_vars

\* after one match of 1000 and one closing trade of the 1000 shares at
\* 400000 the fee recipient holds the fee of 20 of each trade and the seller
\* of the closing trade, left without shares, was credited 380
C26_ClosePaidWithFee ==
    /\ Exists(market) /\ market.total_trades = 2 /\ market.open_interest = 1000
    /\ market.total_volume = 1400
    /\ bal[FeeRecipient] = 40
    /\ \E seller \in Users :
          /\ Exists(positions[seller])
          /\ positions[seller].yes_shares = 0 /\ positions[seller].no_shares = 0
          /\ bal[seller] = InitialBalance - 420 + 380

(***************************************************************************)
(* C27: the realized P&L of a closing trade                                *)
(***************************************************************************)
\* the cost basis of an outcome a position account carries
CostBasis(p, outcome) ==
    IF outcome = "Yes" THEN p.yes_cost_basis ELSE p.no_cost_basis

\* C27: a closing trade adds to the seller's realized_pnl the transfer amount
\* less the per-share cost basis times size, the per-share cost basis being
\* the floor of the sold outcome's cost basis over the shares held before
\* the sale
C27_RealizedPnlNetOfCost ==
    [][\A buyer \in Users, seller \in Users, args \in CloseTradeArgs :
          (/\ Exists(global) /\ Exists(market) /\ Exists(market')
           /\ market'.total_trades # market.total_trades
           /\ ExecuteCloseResult(buyer, seller, args) = "Ok"
           /\ ExecuteCloseEffect(buyer, seller, args))
          => LET transfer_amount == bal[buyer] - bal'[buyer]
                 per_share == CostBasis(positions[seller], args.outcome)
                                 \div HeldShares(positions[seller], args.outcome)
             IN  positions'[seller].realized_pnl - positions[seller].realized_pnl
                    = transfer_amount - per_share * args.size]_vars

(***************************************************************************)
(* C28: who may cancel an order, and what a cancellation does              *)
(***************************************************************************)
\* C28: cancel_order succeeds only for the owner of an order that is Open or
\* PartialFill; rejected with Unauthorized the signer is not the owner,
\* rejected with OrderNotActive the order is not active.
\* cancel_order_by_relayer succeeds only for the market authority, on an
\* active order, once now >= expiry_at - 30; rejected with Unauthorized the
\* signer is not the authority, rejected with OrderNotActive the order is
\* not active.  An order record is deallocated only by one of the two, and
\* the step moves the refund from the vault to the order's owner.
C28_CancelRules ==
    /\ [](Exists(market) =>
            \A signer \in Signers, key \in OrderKeys :
               LET own == CancelOrderResult(signer, key)
                   forced == CancelOrderByRelayerResult(signer, key)
               IN  /\ own = "Ok" =>
                        /\ Exists(orders[key])
                        /\ orders[key].owner = signer
                        /\ orders[key].status \in {"Open", "PartialFill"}
                   /\ own = "Unauthorized" => orders[key].owner # signer
                   /\ own = "OrderNotActive" =>
                        orders[key].status \notin {"Open", "PartialFill"}
                   /\ forced = "Ok" =>
                        /\ Exists(orders[key])
                        /\ signer = market.authority
                        /\ orders[key].status \in {"Open", "PartialFill"}
                        /\ now >= market.expiry_at - 30
                   /\ forced = "Unauthorized" => signer # market.authority
                   /\ forced = "OrderNotActive" =>
                        orders[key].status \notin {"Open", "PartialFill"})
    /\ [][\A key \in OrderKeys :
            (Exists(orders[key]) /\ ~Exists(orders'[key])) =>
               LET owner == orders[key].owner
                   refund == vault - vault'
               IN  /\ Exists(market)
                   /\ \E signer \in Signers :
                         \/ CancelOrderResult(signer, key) = "Ok"
                         \/ CancelOrderByRelayerResult(signer, key) = "Ok"
                   /\ refund = refund_amount(orders[key])
                   /\ bal' = [bal EXCEPT ![owner] = @ + refund]
                   /\ \A other \in OrderKeys \ {key} : orders'[other] = orders[other]]_vars

\* alice's Bid at 600000 for 1501, of which 1000 were filled, has been
\* cancelled inside the close buffer: the record is gone and alice was
\* refunded 300 of the 901 locked
C28_PartialFillCancelled ==
    /\ Exists(market) /\ now >= market.expiry_at - TRADING_CLOSE_BUFFER
    /\ ~Exists(orders[<<"alice", 1>>])
    /\ Exists(positions["alice"]) /\ positions["alice"].yes_shares = 1000
    /\ bal["alice"] = InitialBalance - 901 + 300

(***************************************************************************)
(* C29: the creation of a market                                           *)
(***************************************************************************)
\* a market created with status Pending for a strike of 0 and Open for a
\* positive strike, outcome Pending and all counters zero
CreatedMarketIsFresh ==
    [][(~Exists(market) /\ Exists(market')) =>
          /\ market'.status = (IF market'.strike_price = 0 THEN "Pending" ELSE "Open")
          /\ market'.outcome = "Pending"
          /\ market'.total_volume = 0 /\ market'.total_trades = 0
          /\ market'.total_positions = 0 /\ market'.settled_positions = 0
          /\ market'.open_interest = 0
          /\ market'.expiry_at >= now + 60]_vars

\* C29: for an allow-listed asset and timeframe initialize_market accepts
\* every expiry with expiry >= now + 60 and rejects the earlier ones with
\* InvalidExpiry; the market it creates is Pending for a strike of 0 and Open
\* for a positive strike, with outcome Pending and all counters zero
C29_AcceptsExpiryFromSixty ==
    /\ []((Exists(global) /\ ~Exists(market)) =>
            \A asset \in Assets \cap {"BTC", "ETH", "SOL"},
               timeframe \in Timeframes \cap {"5m", "15m", "1h", "4h", "24h"},
               strike_price \in {0, 1},
               expiry_ts \in {now + 60, MarketExpiry} :
               LET r == InitializeMarketResult(asset, timeframe, strike_price, expiry_ts)
               IN  IF expiry_ts >= now + 60 THEN r = "Ok" ELSE r = "InvalidExpiry")
    /\ CreatedMarketIsFresh

(***************************************************************************)
(* C30: the activation of a Pending market                                 *)
(***************************************************************************)
\* C30: activate_market succeeds only on a Pending market, for the market
\* authority, with a non-zero strike price and while now < expiry_at; a call
\* rejected with Unauthorized comes from another signer, one rejected with
\* InvalidMarketParams carries a zero strike, one rejected with MarketExpired
\* comes at or after the expiry.  A Pending market leaves that status only
\* for Open, before its expiry and with a non-zero strike, and nothing else
\* of it changes.
C30_ActivateOnlyPending ==
    /\ [](Exists(market) =>
            \A signer \in Signers, strike_price \in {0, 1} :
               LET r == ActivateMarketResult(signer, strike_price)
               IN  /\ r = "Ok" =>
                        /\ market.status = "Pending"
                        /\ signer = market.authority
                        /\ strike_price # 0
                        /\ now < market.expiry_at
                   /\ market.status # "Pending" => r # "Ok"
                   /\ r = "Unauthorized" => signer # market.authority
                   /\ r = "InvalidMarketParams" => strike_price = 0
                   /\ r = "MarketExpired" => now >= market.expiry_at)
    /\ [][(Exists(market) /\ Exists(market') /\ market.status = "Pending"
              /\ market' # market) =>
            /\ now < market.expiry_at
            /\ market'.strike_price # 0
            /\ market' = [market EXCEPT !.status = "Open",
                                        !.strike_price = market'.strike_price]]_vars

\* a Pending market before its expiry: the authority's call with a non-zero
\* strike is accepted, a stranger's is Unauthorized and a zero strike is
\* InvalidMarketParams
C30_PendingAwaitsActivation ==
    /\ Exists(market) /\ market.status = "Pending" /\ now < market.expiry_at
    /\ ActivateMarketResult(market.authority, 1) = "Ok"
    /\ ActivateMarketResult("alice", 1) = "Unauthorized"
    /\ ActivateMarketResult(market.authority, 0) = "InvalidMarketParams"

(***************************************************************************)
(* C31: the costs, the fee and the shares of an opening trade              *)
(***************************************************************************)
\* C31: an opening trade of match_size at the execution price has yes_cost
\* the ceiling of yes_price * match_size / 10^6 and no_cost the ceiling of
\* no_price * match_size / 10^6, with yes_price the execution price for
\* outcome Yes and its complement for outcome No; the taker's fee is the
\* floor of the taker's cost * taker_fee_bps / 10000; the YES buyer's
\* yes_shares and the NO buyer's no_shares each grow by match_size.  A match
\* of 10_000_000 at 600000 with a fee of 10 bps costs 6_000_000 and 4_000_000
\* with a fee of 4_000.
C31_OpeningTradeAmounts ==
    /\ CeilCost(ToBig(600000), ToBig(10000000)) = ToBig(6000000)
    /\ CeilCost(ToBig(400000), ToBig(10000000)) = ToBig(4000000)
    /\ FeeOf(ToBig(4000000), ToBig(10)) = ToBig(4000)
    /\ [][(Exists(market) /\ Exists(market')
              /\ market'.open_interest # market.open_interest) =>
            \A maker \in Users, taker \in Users :
            \A mk \in OwnKeys(maker), tk \in OwnKeys(taker) :
            \A margs \in MatchArgsFor(mk), targs \in MatchArgsFor(tk) :
            \A match_size \in MatchSizes :
               (/\ ExecuteMatchResult(maker, taker, mk, tk, margs, targs, match_size)
                      = "Ok"
                /\ ExecuteMatchEffect(maker, taker, mk, tk, margs, targs, match_size))
               => LET md == OrderData(mk, margs)
                      yes_price == IF md.outcome = "Yes" THEN md.price
                                   ELSE 1000000 - md.price
                      maker_buys_yes == (md.side = "Bid") = (md.outcome = "Yes")
                      yes_buyer == IF maker_buys_yes THEN maker ELSE taker
                      no_buyer == IF maker_buys_yes THEN taker ELSE maker
                      yes_before == IF Exists(positions[yes_buyer])
                                    THEN positions[yes_buyer]
                                    ELSE [yes_shares |-> 0, yes_cost_basis |-> 0]
                      no_before == IF Exists(positions[no_buyer])
                                   THEN positions[no_buyer]
                                   ELSE [no_shares |-> 0, no_cost_basis |-> 0]
                      yes_paid == positions'[yes_buyer].yes_cost_basis
                                     - yes_before.yes_cost_basis
                      no_paid == positions'[no_buyer].no_cost_basis
                                     - no_before.no_cost_basis
                      taker_fee == bal'[FeeRecipient] - bal[FeeRecipient]
                      yes_cost == IF maker_buys_yes THEN yes_paid
                                  ELSE yes_paid - taker_fee
                      no_cost == IF maker_buys_yes THEN no_paid - taker_fee
                                 ELSE no_paid
                      taker_cost == IF maker_buys_yes THEN no_cost ELSE yes_cost
                  IN  /\ IsCeilingCost(yes_cost, yes_price, match_size)
                      /\ IsCeilingCost(no_cost, 1000000 - yes_price, match_size)
                      /\ taker_fee = (taker_cost * global.taker_fee_bps) \div 10000
                      /\ market'.total_volume = market.total_volume + yes_cost + no_cost
                      /\ positions'[yes_buyer].yes_shares
                            = yes_before.yes_shares + match_size
                      /\ positions'[no_buyer].no_shares
                            = no_before.no_shares + match_size
                      /\ market'.open_interest = market.open_interest + match_size]_vars

\* one match of 1501 at 400000 with both legs rounded up: the YES buyer, as
\* the maker, paid 601 and the NO buyer, as the taker, 901 and the fee of 45
C31_RoundedLegsPaid ==
    /\ Exists(market) /\ market.total_trades = 1 /\ market.open_interest = 1501
    /\ market.total_volume = 1502
    /\ \E yes_buyer \in Users, no_buyer \in Users :
          /\ Exists(positions[yes_buyer]) /\ Exists(positions[no_buyer])
          /\ positions[yes_buyer].yes_shares = 1501
          /\ positions[yes_buyer].yes_cost_basis = 601
          /\ positions[no_buyer].no_shares = 1501
          /\ positions[no_buyer].no_cost_basis = 946
          /\ bal[FeeRecipient] = 45

(***************************************************************************)
(* C32: the pause flag stops trading and nothing else                      *)
(***************************************************************************)
\* a Bid and an Ask for Yes at 600000 that cross
CrossingQuotes == { Args(s, "Yes", "Limit", 600000, 1000, FarExpiry) : s \in Sides }

\* C32: while the pause flag is set place_order, execute_match and
\* execute_close fail, with ProtocolPaused once the checks on their accounts
\* have passed, so that no order is stored, filled or traded; the results of
\* cancel_order, cancel_order_by_relayer, resolve_market, settle_positions
\* and close_market are decided, paused or not, by conditions on the market,
\* the order or position, the vault and the clock alone.
C32_PauseStopsTradingOnly ==
    /\ []((Exists(global) /\ Exists(market) /\ global.paused) =>
            /\ \A user \in Users, args \in PlaceArgs :
                  LET r == PlaceOrderResult(user, args)
                  IN  /\ r \in {"AccountAlreadyInUse", "MarketNotOpen", "ProtocolPaused"}
                      /\ (~Exists(orders[<<user, args.client_order_id>>])
                             /\ TradingWindow) => r = "ProtocolPaused"
            /\ \A maker \in Users, taker \in Users :
               \A mk \in OwnKeys(maker), tk \in OwnKeys(taker) :
               \A margs \in ArgsFor(mk) \cap ({NoArgs} \cup CrossingQuotes),
                  targs \in ArgsFor(tk) \cap ({NoArgs} \cup CrossingQuotes) :
                  LET r == ExecuteMatchResult(maker, taker, mk, tk, margs, targs,
                                              MIN_ORDER_SIZE)
                  IN  /\ r \in {"OrderNotActive", "ProtocolPaused"}
                      /\ (mk = NoKey /\ tk = NoKey) => r = "ProtocolPaused"
            /\ \A buyer \in Users, seller \in Users, args \in CloseTradeArgs :
                  LET r == ExecuteCloseResult(buyer, seller, args)
                  IN  /\ r \in {"AccountNotInitialized", "ProtocolPaused"}
                      /\ (Exists(positions[buyer]) /\ Exists(positions[seller]))
                            => r = "ProtocolPaused")
    /\ [][(Exists(global) /\ global.paused) =>
            /\ \A k \in OrderKeys :
                  /\ ~Exists(orders[k]) => ~Exists(orders'[k])
                  /\ (Exists(orders[k]) /\ Exists(orders'[k])) => orders'[k] = orders[k]
            /\ positions' # positions => ~Exists(market) \/ market.status = "Resolved"
            /\ (Exists(market) /\ Exists(market')) =>
                  market'.total_trades = market.total_trades]_vars
    /\ [](Exists(market) =>
            /\ \A signer \in Signers, key \in OrderKeys :
                  Exists(orders[key]) =>
                     LET o == orders[key]
                         refund == IF o.filled_size = 0 THEN o.locked_amount
                                   ELSE (o.locked_amount * (o.size - o.filled_size))
                                            \div o.size
                         live == o.status \in {"Open", "PartialFill"}
                     IN  /\ CancelOrderResult(signer, key) = "Ok" <=>
                               /\ signer = o.owner /\ live
                               /\ refund = 0 \/ vault >= refund
                         /\ CancelOrderByRelayerResult(signer, key) = "Ok" <=>
                               /\ signer = market.authority /\ live
                               /\ now >= market.expiry_at - 30
                               /\ refund = 0 \/ vault >= refund
            /\ \A outcome \in ResolveOutcomes, final_price \in FinalPrices :
                  ResolveMarketResult(outcome, final_price) = "Ok" <=>
                     /\ now >= market.expiry_at
                     /\ market.status \in {"Open", "Closed"}
                     /\ outcome \in {0, 1} /\ final_price > 0
            /\ \A user \in Users :
                  Exists(positions[user]) =>
                     LET won == IF market.outcome = "Yes"
                                THEN positions[user].yes_shares
                                ELSE positions[user].no_shares
                     IN  SettlePositionsResult(user) = "Ok" <=>
                            /\ market.status = "Resolved"
                            /\ ~positions[user].settled
                            /\ won = 0 \/ vault >= won
            /\ \A signer \in Signers :
                  CloseMarketResult(signer) = "Ok" <=>
                     /\ signer = market.authority
                     /\ now >= market.expiry_at
                     /\ \/ market.status = "Settled"
                        \/ market.total_positions = 0
                              /\ (market.status = "Resolved" \/ market.open_interest = 0)
                     /\ (market.total_positions = 0 /\ market.open_interest = 0)
                           => vault = 0)

\* the protocol is paused on a market in its trading window that has traded
\* and holds an active order: a placement, a match of two quotes and a
\* closing trade are rejected with ProtocolPaused, the owner's cancellation
\* is accepted
C32_PausedWithActiveOrder ==
    /\ Exists(global) /\ global.paused /\ TradingWindow
    /\ market.total_trades > 0
    /\ \E user \in Users, args \in PlaceArgs :
          PlaceOrderResult(user, args) = "ProtocolPaused"
    /\ \E args \in QuoteArgs :
          ExecuteMatchResult("alice", "bob", NoKey, NoKey, args, args, 1000)
              = "ProtocolPaused"
    /\ \E buyer \in Users, seller \in Users, args \in CloseTradeArgs :
          ExecuteCloseResult(buyer, seller, args) = "ProtocolPaused"
    /\ \E key \in OrderKeys : CancelOrderResult(key[1], key) = "Ok"

\* C33: resolve_market succeeds only when the caller is the market's
\* authority: for a signer other than market.authority no outcome and
\* final price are accepted.
C33_OnlyAuthorityResolves ==
    Exists(market) =>
       \A authority \in Signers \ {market.authority} :
       \A outcome \in ResolveOutcomes, final_price \in FinalPrices :
          ResolveMarketBy(authority, outcome, final_price) # "Ok"

\* C34: in every reachable state of a market that is not yet resolved the
\* YES shares of all positions and the NO shares of all positions both sum
\* to the market's open_interest.
C34_SharesEqualOpenInterest ==
    (Exists(market) /\ market.status \in {"Pending", "Open", "Closed"}) =>
       /\ SumOver(OpenPositions, [u \in OpenPositions |-> positions[u].yes_shares])
             = market.open_interest
       /\ SumOver(OpenPositions, [u \in OpenPositions |-> positions[u].no_shares])
             = market.open_interest

\* an unresolved market on which shares were opened and then sold on in a
\* closing trade
C34_TradedAndClosed ==
    /\ Exists(market) /\ market.status = "Open"
    /\ market.open_interest > 0
    /\ market.total_trades > 1
    /\ \E u \in OpenPositions :
          positions[u].yes_shares > 0 /\ positions[u].no_shares > 0

\* C35: once a market with positions is Resolved, the settle_positions call
\* for each of its positions succeeds, so that settling every position once
\* brings the market to Settled and enables close_market.
C35_EverySettlementSucceeds ==
    (Exists(market) /\ market.status = "Resolved" /\ market.total_positions > 0) =>
       \A user \in OpenPositions : SettlePositionsResult(user) = "Ok"

\* C36: once now >= expiry_at no place_order, execute_match or execute_close
\* succeeds on the market again, so from then on, through resolution and
\* until the positions are settled, total_positions and open_interest keep
\* their values, no position is created and no position's shares change.
C36_FrozenAfterExpiry ==
    /\ []((Exists(global) /\ Exists(market) /\ now >= market.expiry_at) =>
            /\ \A user \in Users, args \in PlaceArgs :
                  PlaceOrderResult(user, args) # "Ok"
            /\ \A maker \in Users, taker \in Users :
               \A mk \in OwnKeys(maker), tk \in OwnKeys(taker) :
               \A margs \in ArgsFor(mk) \cap ({NoArgs} \cup CrossingQuotes),
                  targs \in ArgsFor(tk) \cap ({NoArgs} \cup CrossingQuotes) :
                  ExecuteMatchResult(maker, taker, mk, tk, margs, targs,
                                     MIN_ORDER_SIZE) # "Ok"
            /\ \A buyer \in Users, seller \in Users, args \in CloseTradeArgs :
                  ExecuteCloseResult(buyer, seller, args) # "Ok")
    /\ [][(Exists(market) /\ now >= market.expiry_at) =>
            /\ Exists(market') =>
                  /\ market'.total_positions = market.total_positions
                  /\ market'.open_interest = market.open_interest
                  /\ market'.total_trades = market.total_trades
            /\ \A u \in Users :
                  /\ ~Exists(positions[u]) => ~Exists(positions'[u])
                  /\ (Exists(positions[u]) /\ Exists(positions'[u])) =>
                        /\ positions'[u].yes_shares = positions[u].yes_shares
                        /\ positions'[u].no_shares = positions[u].no_shares
                  /\ (Exists(positions[u]) /\ ~Exists(positions'[u])) =>
                        market.status = "Resolved"]_vars

\* a resolved market past its expiry with shares outstanding, one position
\* already settled and an active order still stored
C36_ResolvedWithShares ==
    /\ Exists(global) /\ Exists(market)
    /\ now >= market.expiry_at
    /\ market.status = "Resolved"
    /\ market.open_interest > 0
    /\ market.settled_positions > 0
    /\ \E u \in OpenPositions : positions[u].yes_shares + positions[u].no_shares > 0
    /\ \E k \in OrderKeys : Exists(orders[k]) /\ is_active(orders[k])

\* what the two sides of a trade hold as cost basis, fees included
TotalCostBasis(ps) ==
    SumOver(Users, [u \in Users |->
                      IF Exists(ps[u]) THEN ps[u].yes_cost_basis + ps[u].no_cost_basis
                      ELSE 0])

\* C37: for every accepted opening trade yes_cost + no_cost is match_size or
\* match_size + 1: the two legs, fee apart, pay the face value of the
\* contracts and at most one unit of rounding, also for the largest sizes.
C37_LegsSumToSize ==
    /\ \A price \in {333333, 500000, 990000} :
       \A size \in {MAX_ORDER_SIZE, <<9999, 9999, 999>>, <<1, 0, 1>>} :
          checked_add(CeilCost(ToBig(price), size),
                      CeilCost(ToBig(USDC_MULTIPLIER - price), size))
             \in {size, checked_add(size, ToBig(1))}
    /\ [][(Exists(market) /\ Exists(market')
              /\ market'.open_interest # market.open_interest) =>
            LET match_size == market'.open_interest - market.open_interest
                taker_fee == bal'[FeeRecipient] - bal[FeeRecipient]
                legs == TotalCostBasis(positions') - TotalCostBasis(positions)
                           - taker_fee
            IN  /\ legs \in {match_size, match_size + 1}
                /\ market'.total_volume - market.total_volume = legs]_vars

\* two opening trades, one whose legs sum to the size, 1000, and one whose
\* legs sum to the size and one, 1502 for 1501
C37_ExactAndRoundedTrade ==
    /\ Exists(market) /\ market.total_trades = 2
    /\ market.open_interest = 2501
    /\ market.total_volume = 2502

\* C38: the authority's forced cancellation and trading exclude each other
\* and leave no gap: an active order is force-cancelled only at a time when
\* no match is accepted, and once the trading window of its market is over
\* the authority's cancel_order_by_relayer succeeds for it as long as the
\* market record exists.
C38_ForceCancelWhenUnmatchable ==
    Exists(market) =>
       \A key \in OrderKeys :
          (Exists(orders[key]) /\ orders[key].status \in {"Open", "PartialFill"}) =>
             /\ CancelOrderByRelayerResult(market.authority, key) = "Ok"
                   => ~(now < market.expiry_at - 30) /\ ~is_trading_open(market, now)
             /\ ~(now < market.expiry_at - 30)
                   => CancelOrderByRelayerResult(market.authority, key) = "Ok"

OwnerCancelNotGated ==
    /\ [](Exists(market) =>
            \A key \in OrderKeys :
               (Exists(orders[key]) /\ orders[key].status \in {"Open", "PartialFill"}) =>
                  (CancelOrderResult(orders[key].owner, key) = "Ok"
                      <=> vault >= refund_amount(orders[key])))
    /\ [][\A key \in OrderKeys :
            (Exists(orders[key]) /\ ~Exists(orders'[key])) =>
               /\ Exists(market)
               /\ vault' = vault - refund_amount(orders[key])
               /\ bal'[orders[key].owner]
                     = bal[orders[key].owner] + refund_amount(orders[key])]_vars

\* C40: the owner's cancel_order of an Open or PartialFill order is gated by
\* nothing but the vault balance and refunds the amount of the formula:
\* locked_amount for an unfilled order, and for a partly filled one the
\* floor of locked_amount * (size - filled_size) / size.
C40_OwnerCancelRefundsFormula ==
    [][(Exists(order) /\ order.status \in {"Open", "PartialFill"}
           /\ ~Exists(order')) =>
         IF order.filled_size = <<>> THEN refunded' = order.locked_amount
         ELSE LET due == MulLong(order.locked_amount,
                                 SubBig(order.size, order.filled_size))
              IN  /\ LeBig(MulLong(refunded', order.size), due)
                  /\ LtBig(due, MulLong(AddBig(refunded', <<1>>), order.size))]_vars

=============================================================================
